---- MODULE Spec2Model ----
(***************************************************************************)
(* minES: block-based switch-style echo suppressor (suppressor.h,          *)
(* suppressor.js).  The model follows the configurable EchoSuppressor      *)
(* (constructor, set_config, reset, process_block); the fixed-constant     *)
(* C++ and JavaScript suppressors are the instance lag_metric = kAMDF.     *)
(*                                                                         *)
(* Arithmetic.  The code computes in IEEE float; the model computes the    *)
(* same expressions exactly, over rationals [n |-> Int, d |-> Nat \ {0}].  *)
(* A sample is an integer k standing for the float k / SampleDen.  NCC     *)
(* scores a / sqrt(P) are kept as the pair (a, P) and compared through     *)
(* their signed squares, so no square root is ever rounded.                *)
(***************************************************************************)
EXTENDS Integers, Sequences, FiniteSets, TLC

(***************************************************************************)
(* Bounds of the model (scaled-down sizes; the code runs at 16 kHz with    *)
(* 160-sample blocks, a 1280- or 8000-sample lag window and a 16-sample    *)
(* lag step).                                                              *)
(***************************************************************************)
Block == 2
MaxLag == 4
LagStep == 2
Hangover == 2
MaxBlocks == 3
MaxRunBlocks == 7
MaxResets == 1
MaxSmoothBlocks == 4
MeterGrid == 64
MaxDelay == 2
MaxCaptured == 5
MaxChunk == 2
MantBits == 3
MaxPortBlocks == 2
PcmHalf == 4
MaxFrames == 3
MaxEchoSamples == 7
MaxArgs == 3
MaxFileSamples == 5
LagHistoryLimit == 2
TrimLimit == 1

(***************************************************************************)
(* The sample grid: k / SampleDen.  The epsilon floor 1e-9f of the code    *)
(* is EpsNum / EpsDen here, scaled with the grid so that, as on the 16-bit *)
(* path (1/32768 squared is below 1e-9), the grid has a nonzero sample     *)
(* whose square is below epsilon while its magnitude is above it.          *)
(***************************************************************************)
SampleDen == 2
EpsNum == 3
EpsDen == 10

----------------------------------------------------------------------------
(* the result of a step whose inputs are computed first, as the code has   *)
(* them in locals before the step runs                                     *)
Only(results) == CHOOSE r \in results : TRUE

(* Exact rational arithmetic *)

Abs(x) == IF x < 0 THEN -x ELSE x

RECURSIVE GCD(_, _)
GCD(a, b) == IF b = 0 THEN a ELSE GCD(b, a % b)

R(n, d) ==
  LET g == GCD(Abs(n), d)
  IN  [n |-> n \div g, d |-> d \div g]

RInt(k) == [n |-> k, d |-> 1]
ROne == RInt(1)
RZero == RInt(0)

LCM(a, b) == (a \div GCD(a, b)) * b

RAdd(a, b) ==
  IF a.d = b.d THEN R(a.n + b.n, a.d)
  ELSE LET l == LCM(a.d, b.d)
       IN  R(a.n * (l \div a.d) + b.n * (l \div b.d), l)

RNeg(a) == [n |-> -a.n, d |-> a.d]
RSub(a, b) == RAdd(a, RNeg(b))
RMul(a, b) ==
  IF a.n = 0 \/ b.n = 0 THEN RZero
  ELSE LET g1 == GCD(Abs(a.n), b.d)
           g2 == GCD(Abs(b.n), a.d)
       IN  [n |-> (a.n \div g1) * (b.n \div g2), d |-> (a.d \div g2) * (b.d \div g1)]
RDiv(a, b) ==
  IF b.n > 0 THEN RMul(a, [n |-> b.d, d |-> b.n])
  ELSE RMul(a, [n |-> -b.d, d |-> -b.n])

RLt(a, b) ==
  IF a.d = b.d THEN a.n < b.n
  ELSE LET l == LCM(a.d, b.d)
       IN  a.n * (l \div a.d) < b.n * (l \div b.d)
RLe(a, b) == ~RLt(b, a)
RMax(a, b) == IF RLt(a, b) THEN b ELSE a
RAbs(a) == [n |-> Abs(a.n), d |-> a.d]

(* 1e-9f *)
kEps == R(EpsNum, EpsDen)

(* a float sample, from its grid index *)
Sample(k) == R(k, SampleDen)

----------------------------------------------------------------------------
(* Sizes fixed by the constructor *)

HistLen == MaxLag + Block * 4
BlockIdx == 0 .. (Block - 1)
HistIdx == 0 .. (HistLen - 1)
ZeroBlock == [i \in BlockIdx |-> 0]
ZeroHist == [i \in HistIdx |-> 0]

(* std::pow(10.0f, atten_db / 20.0f), for the multiples of 20 dB *)
RECURSIVE Pow10(_)
Pow10(e) ==
  IF e = 0 THEN ROne
  ELSE IF e > 0 THEN RMul(RInt(10), Pow10(e - 1))
  ELSE RMul(R(1, 10), Pow10(e + 1))

AttenLinear(config) ==
  LET a == Pow10(config.atten_db \div 20)
  IN  IF RLt(a, RZero) THEN RZero ELSE a

----------------------------------------------------------------------------
(* Similarity scores.  A score is num / sqrt(rad); ninf marks the initial  *)
(* -infinity of best_score.                                                *)

NegInf == [ninf |-> TRUE, num |-> RZero, rad |-> ROne]
ScoreOf(r) == [ninf |-> FALSE, num |-> r, rad |-> ROne]
ScoreRatio(a, p) == [ninf |-> FALSE, num |-> a, rad |-> p]

(* sign(s) * s^2, strictly increasing in s *)
SignedSquare(s) ==
  LET q == RDiv(RMul(s.num, s.num), s.rad)
  IN  IF s.num.n < 0 THEN RNeg(q) ELSE q

(* float comparison s > t *)
ScoreGt(s, t) ==
  /\ ~s.ninf
  /\ \/ t.ninf
     \/ RLt(SignedSquare(t), SignedSquare(s))

----------------------------------------------------------------------------
(* process_block, step by step *)

RECURSIVE SumTo(_, _)
SumTo(f, n) == IF n = 0 THEN 0 ELSE f[n - 1] + SumTo(f, n - 1)

(* integer remainder of C++ and JavaScript: truncates toward zero *)
CRem(a, b) == IF a >= 0 THEN a % b ELSE -((-a) % b)

(* the index with negative remainders corrected by one slot too few *)
wrap_index_ShortFix(pos, offset) ==
  LET idx == CRem(pos + offset, HistLen)
  IN  IF idx < 0 THEN idx + HistLen - 1 ELSE idx

wrap_index(pos, offset) ==
  LET idx == CRem(pos + offset, HistLen)
  IN  IF idx < 0 THEN idx + HistLen ELSE idx

(* the push with the cursor wrapped one slot early *)
RECURSIVE PushFar_ShortWrap(_, _, _, _)
PushFar_ShortWrap(hist, pos, far, i) ==
  IF i >= Block THEN [far_hist |-> hist, hist_pos |-> pos]
  ELSE PushFar_ShortWrap([hist EXCEPT ![pos] = far[i]], (pos + 1) % (HistLen - 1), far, i + 1)

(* the loop that stores the far-end block and advances hist_pos_ *)
RECURSIVE PushFar(_, _, _, _)
PushFar(hist, pos, far, i) ==
  IF i >= Block THEN [far_hist |-> hist, hist_pos |-> pos]
  ELSE PushFar([hist EXCEPT ![pos] = far[i]], (pos + 1) % HistLen, far, i + 1)

MicPow(mic) ==
  RMax(R(SumTo([i \in BlockIdx |-> mic[i] * mic[i]], Block), SampleDen * SampleDen), kEps)

MicAbs(mic) ==
  RMax(R(SumTo([i \in BlockIdx |-> Abs(mic[i])], Block), SampleDen), kEps)

(* the window counted back from the cursor without the block just pushed *)
LagWindow_FromCursor(hist, pos, lag) ==
  [i \in BlockIdx |-> hist[wrap_index(pos, -lag + i)]]

(* the window read one sample late *)
LagWindow_OneLate(hist, pos, lag) ==
  [i \in BlockIdx |-> hist[wrap_index(pos, -(Block + lag) + i + 1)]]

(* the samples fx read by the inner loop for one lag *)
LagWindow(hist, pos, lag) ==
  [i \in BlockIdx |-> hist[wrap_index(pos, -(Block + lag) + i)]]

FarPow(w) ==
  RMax(R(SumTo([i \in BlockIdx |-> w[i] * w[i]], Block), SampleDen * SampleDen), kEps)

(* std::max(-1.0f, std::min(1.0f, score)) *)
Clamp(score) ==
  IF RLt(ROne, score) THEN ROne
  ELSE IF RLt(score, RInt(-1)) THEN RInt(-1)
  ELSE score

(* the AMDF divisor floored at half of epsilon, the microphone sum not floored *)
AmdfDenom_HalfFloor(w, mic) ==
  RMax(R(SumTo([i \in BlockIdx |-> Abs(mic[i]) + Abs(w[i])], Block), SampleDen),
       RMul(kEps, R(1, 2)))

(* denom = std::max(mic_abs + far_abs, 1e-9f) *)
AmdfDenom(w, mic) ==
  LET far_abs == R(SumTo([i \in BlockIdx |-> Abs(w[i])], Block), SampleDen)
  IN  RMax(RAdd(MicAbs(mic), far_abs), kEps)

AmdfScore(w, mic) ==
  Only({Clamp(RSub(ROne, RDiv(accum, denom))) :
          accum \in {R(SumTo([i \in BlockIdx |-> Abs(w[i] - mic[i])], Block), SampleDen)},
          denom \in {AmdfDenom(w, mic)}})

(* far_pow * mic_pow, whose square root is the NCC divisor *)
NccRadicand(w, mic) == RMul(FarPow(w), MicPow(mic))

NccScore(w, mic) ==
  LET accum == R(SumTo([i \in BlockIdx |-> w[i] * mic[i]], Block), SampleDen * SampleDen)
  IN  ScoreRatio(accum, NccRadicand(w, mic))

LagScore(config, w, mic) ==
  IF config.lag_metric = "kAMDF" THEN ScoreOf(AmdfScore(w, mic))
  ELSE NccScore(w, mic)

(* a candidate that replaces the running best on an equal score too *)
BetterScore_OrEqual(score, best_score) == ~ScoreGt(best_score, score)

(* one candidate replaces the running best *)
BetterScore(score, best_score) == ScoreGt(score, best_score)

(* the lags for which the loop body runs, in the order of the loop *)
RECURSIVE LagsVisited(_)
LagsVisited(lag) ==
  IF lag > MaxLag THEN <<>> ELSE <<lag>> \o LagsVisited(lag + LagStep)

(* if (score > best_score) { best_score = score; best_lag = lag; ... } *)
TakeBest(best, lag, score, far_pow) ==
  IF BetterScore(score, best.best_score)
  THEN [best_score |-> score, best_lag |-> lag, best_far_pow |-> far_pow]
  ELSE best

(* the search over every lag of [0, maxLag], whatever the step *)
RECURSIVE LagSearch_EveryLag(_, _, _, _, _, _)
LagSearch_EveryLag(config, hist, pos, mic, lag, best) ==
  IF lag > MaxLag THEN best
  ELSE LET w == LagWindow(hist, pos, lag)
       IN  LagSearch_EveryLag(config, hist, pos, mic, lag + 1,
                              TakeBest(best, lag, LagScore(config, w, mic), FarPow(w)))

(* for (lag = 0; lag <= max_lag_samples_; lag += lag_step) *)
RECURSIVE LagSearch(_, _, _, _, _, _)
LagSearch(config, hist, pos, mic, lag, best) ==
  IF lag > MaxLag THEN best
  ELSE LET w == LagWindow(hist, pos, lag)
       IN  LagSearch(config, hist, pos, mic, lag + LagStep,
                     TakeBest(best, lag, LagScore(config, w, mic), FarPow(w)))

(* the decision with both comparisons non-strict *)
EchoDetected_NonStrict(config, best_score, mic_pow, best_far_pow) ==
  /\ ~ScoreGt(ScoreOf(config.rho_thresh), best_score)
  /\ RLe(mic_pow, RMul(config.power_ratio_alpha, best_far_pow))

EchoDetected(config, best_score, mic_pow, best_far_pow) ==
  /\ ScoreGt(best_score, ScoreOf(config.rho_thresh))
  /\ RLt(mic_pow, RMul(config.power_ratio_alpha, best_far_pow))

(* hangover control adding the length to what is left on a new detection *)
HangoverStep_Accumulate(config, hang_cnt, echo_detected) ==
  IF echo_detected
  THEN [hang_cnt |-> hang_cnt + config.hangover_blocks, suppress |-> TRUE]
  ELSE IF hang_cnt > 0 THEN [hang_cnt |-> hang_cnt - 1, suppress |-> TRUE]
  ELSE [hang_cnt |-> hang_cnt, suppress |-> FALSE]

(* hangover control with the counter loaded one short *)
HangoverStep_OneShort(config, hang_cnt, echo_detected) ==
  IF echo_detected THEN [hang_cnt |-> config.hangover_blocks - 1, suppress |-> TRUE]
  ELSE IF hang_cnt > 0 THEN [hang_cnt |-> hang_cnt - 1, suppress |-> TRUE]
  ELSE [hang_cnt |-> hang_cnt, suppress |-> FALSE]

(* hangover control: the new counter and the suppress flag *)
HangoverStep(config, hang_cnt, echo_detected) ==
  IF echo_detected THEN [hang_cnt |-> config.hangover_blocks, suppress |-> TRUE]
  ELSE IF hang_cnt > 0 THEN [hang_cnt |-> hang_cnt - 1, suppress |-> TRUE]
  ELSE [hang_cnt |-> hang_cnt, suppress |-> FALSE]

(* the target chosen the wrong way round *)
TargetGain_Swapped(atten, suppress) == IF suppress THEN ROne ELSE atten

TargetGain(atten, suppress) == IF suppress THEN atten ELSE ROne

(* the attack coefficient taken on target = gain too *)
Coeff_AttackOnEqual(config, target_gain, gain) ==
  IF RLe(target_gain, gain) THEN config.attack ELSE config.release

(* the coefficients taken the wrong way round *)
Coeff_Swapped(config, target_gain, gain) ==
  IF RLt(target_gain, gain) THEN config.release ELSE config.attack

Coeff(config, target_gain, gain) ==
  IF RLt(target_gain, gain) THEN config.attack ELSE config.release

(* the smoother without the (1 - coeff) weight on the old gain *)
SmoothGain_NoDecay(coeff, gain, target_gain) ==
  RAdd(gain, RMul(coeff, target_gain))

SmoothGain(coeff, gain, target_gain) ==
  RAdd(RMul(RSub(ROne, coeff), gain), RMul(coeff, target_gain))

(* the applier clipping the product to the sample range of half scale *)
ApplyGain_Clipped(mic, gain) ==
  [i \in BlockIdx |->
     LET y == RMul(Sample(mic[i]), gain)
     IN  IF RLt(R(1, 2), y) THEN R(1, 2)
         ELSE IF RLt(y, R(-1, 2)) THEN R(-1, 2)
         ELSE y]

ApplyGain(mic, gain) == [i \in BlockIdx |-> RMul(Sample(mic[i]), gain)]

(* The whole call, in the order of the code.  s is the object (config_,    *)
(* atten_linear_, far_hist_, hist_pos_, gate_gain_, hang_cnt_); the result *)
(* is the object after the call together with the values handed back to    *)
(* the caller and the intermediate values of the call.                     *)

(* the lag reported whatever the decision was *)
EstimatedLag_Always(echo_detected, best_lag) == best_lag

(* *estimated_lag_samples = echo_detected ? best_lag : -1 *)
EstimatedLag(echo_detected, best_lag) == IF echo_detected THEN best_lag ELSE -1

(* out[i] = mic[i] * gate_gain_; *applied_gain; return suppress *)
Emit(s, mic, pushed, mic_pow, found, best_far_pow, echo_detected, hang, target_gain, coeff, gain) ==
  [obj |-> [config |-> s.config, atten_linear |-> s.atten_linear,
            far_hist |-> pushed.far_hist, hist_pos |-> pushed.hist_pos,
            gate_gain |-> gain, hang_cnt |-> hang.hang_cnt],
   out |-> ApplyGain(mic, gain),
   applied_gain |-> gain,
   estimated_lag_samples |-> EstimatedLag(echo_detected, found.best_lag),
   ret |-> hang.suppress,
   echo_detected |-> echo_detected,
   best_score |-> found.best_score,
   best_lag |-> found.best_lag,
   best_far_pow |-> best_far_pow,
   mic_pow |-> mic_pow,
   target_gain |-> target_gain,
   coeff |-> coeff]

(* hangover, target gain, smoothing coefficient, gain update *)
Gate(s, mic, pushed, mic_pow, found, best_far_pow, echo_detected) ==
  LET hang == HangoverStep(s.config, s.hang_cnt, echo_detected)
      target_gain == TargetGain(s.atten_linear, hang.suppress)
      coeff == Coeff(s.config, target_gain, s.gate_gain)
  IN  Emit(s, mic, pushed, mic_pow, found, best_far_pow, echo_detected, hang,
           target_gain, coeff, SmoothGain(coeff, s.gate_gain, target_gain))

(* best_far_pow floor and the echo decision *)
Decide(s, mic, pushed, mic_pow, found) ==
  Only({Only({Gate(s, mic, pushed, mic_pow, found, best_far_pow, echo_detected) :
                echo_detected \in
                  {EchoDetected(s.config, found.best_score, mic_pow, best_far_pow)}}) :
          best_far_pow \in {RMax(found.best_far_pow, kEps)}})

(* push of the far-end block, microphone power, lag search *)
process_block(s, far, mic) ==
  Only({Only({Decide(s, mic, pushed, mic_pow, found) :
                mic_pow \in {MicPow(mic)},
                found \in
                  {LagSearch(s.config, pushed.far_hist, pushed.hist_pos, mic, 0,
                     [best_score |-> NegInf, best_lag |-> 0, best_far_pow |-> kEps])}}) :
          pushed \in {PushFar(s.far_hist, s.hist_pos, far, 0)}})

(* a reset that leaves the hangover counter alone *)
reset_KeepsHangover(s) ==
  [s EXCEPT !.far_hist = ZeroHist, !.hist_pos = 0, !.gate_gain = ROne]

(* reset() *)
reset(s) ==
  [s EXCEPT !.far_hist = ZeroHist, !.hist_pos = 0, !.gate_gain = ROne, !.hang_cnt = 0]

(* set_config() followed by reset(), as in the constructor *)
set_config_AndReset(s, config) ==
  [s EXCEPT !.config = config, !.atten_linear = AttenLinear(config),
            !.far_hist = ZeroHist, !.hist_pos = 0, !.gate_gain = ROne, !.hang_cnt = 0]

(* set_config() *)
set_config(s, config) ==
  [s EXCEPT !.config = config, !.atten_linear = AttenLinear(config)]

(* EchoSuppressor(sample_rate, config) *)
Construct(config) ==
  reset(set_config([config |-> config, atten_linear |-> Pow10(-1),
                    far_hist |-> ZeroHist, hist_pos |-> 0,
                    gate_gain |-> ROne, hang_cnt |-> 0], config))

----------------------------------------------------------------------------
(* Single-precision arithmetic with a significand of MantBits bits: every  *)
(* float operation of the code yields the exact result rounded to nearest, *)
(* ties to even.                                                           *)

Pow2(k) == 2 ^ k

(* the integer nearest to x >= 0, ties to even *)
RoundHalfEven(x) ==
  LET q == x.n \div x.d
      twice == 2 * (x.n - q * x.d)
  IN  IF twice > x.d \/ (twice = x.d /\ q % 2 = 1) THEN q + 1 ELSE q

(* x > 0 brought into [2^(bits-1), 2^bits), rounded, scaled back: halved  *)
(* down times while it is 2^bits or more, else doubled up times while it   *)
(* is below 2^(bits-1)                                                     *)
RoundMag(bits, x, scale) ==
  LET down == CHOOSE e \in 0 .. x.n : x.n < x.d * Pow2(bits) * Pow2(e)
      up == CHOOSE e \in 0 .. x.d * Pow2(bits - 1) : x.n * Pow2(e) >= x.d * Pow2(bits - 1)
  IN  IF down > 0
      THEN RMul(RInt(RoundHalfEven(RMul(x, R(1, Pow2(down))))), RMul(scale, RInt(Pow2(down))))
      ELSE RMul(RInt(RoundHalfEven(RMul(x, RInt(Pow2(up))))), RMul(scale, R(1, Pow2(up))))

FloatMag(x, scale) == RoundMag(MantBits, x, scale)

(* a result stored in a float *)
Float(x) ==
  IF x.n = 0 THEN RZero
  ELSE IF x.n > 0 THEN FloatMag(x, ROne)
  ELSE RNeg(FloatMag(RNeg(x), ROne))

(* 1e-9f *)
kEpsF == Float(kEps)

(* s += f[i] for i = 0 .. n - 1, s a float *)
RECURSIVE FSum(_, _)
FSum(f, n) == IF n = 0 THEN RZero ELSE Float(RAdd(FSum(f, n - 1), f[n - 1]))

(* the difference divided by the microphone sum alone *)
AmdfScoreF_MicOnly(w, mic) ==
  LET mic_abs == RMax(FSum([i \in BlockIdx |-> RAbs(mic[i])], Block), kEpsF)
      accum == FSum([i \in BlockIdx |-> RAbs(Float(RSub(w[i], mic[i])))], Block)
      denom == RMax(mic_abs, kEpsF)
      raw == Float(RSub(ROne, Float(RDiv(accum, denom))))
  IN  [w |-> w, mic |-> mic, accum |-> accum, denom |-> denom,
       raw |-> raw, score |-> Clamp(raw), done |-> TRUE]

(* the AMDF score of one window as the inner loop computes it in floats;   *)
(* w and mic are blocks of floats; raw is the score before the clamp       *)
AmdfScoreF(w, mic) ==
  LET mic_abs == RMax(FSum([i \in BlockIdx |-> RAbs(mic[i])], Block), kEpsF)
      accum == FSum([i \in BlockIdx |-> RAbs(Float(RSub(w[i], mic[i])))], Block)
      far_abs == FSum([i \in BlockIdx |-> RAbs(w[i])], Block)
      denom == RMax(Float(RAdd(mic_abs, far_abs)), kEpsF)
      raw == Float(RSub(ROne, Float(RDiv(accum, denom))))
  IN  [w |-> w, mic |-> mic, accum |-> accum, denom |-> denom,
       raw |-> raw, score |-> Clamp(raw), done |-> TRUE]

(* floats with a full significand, a short one, and zero *)
FloatSamples == {R(k, Pow2(MantBits)) : k \in {-7, -3, 0, 2, 7}}
FloatBlocks == [BlockIdx -> FloatSamples]

(* a window and a microphone block before the inner loop has run *)
Unscored(w, mic) ==
  [w |-> w, mic |-> mic, accum |-> RZero, denom |-> kEpsF,
   raw |-> ROne, score |-> ROne, done |-> FALSE]

NoScore == Unscored([i \in BlockIdx |-> RZero], [i \in BlockIdx |-> RZero])

----------------------------------------------------------------------------
(* The fixed-constant C++ suppressor and JsSuppressor, each in the         *)
(* arithmetic it runs in: "float" for C++, "double" for JavaScript, and    *)
(* "real" for the same steps without rounding.                             *)

DoubleBits == 2 * MantBits
Bits(arith) == IF arith = "float" THEN MantBits ELSE DoubleBits

(* the result of one arithmetic operation *)
Round(arith, x) ==
  IF arith = "real" \/ x.n = 0 THEN x
  ELSE IF x.n > 0 THEN RoundMag(Bits(arith), x, ROne)
  ELSE RNeg(RoundMag(Bits(arith), RNeg(x), ROne))

(* s += f[i] for i = 0 .. n - 1 *)
RECURSIVE ASum(_, _, _)
ASum(arith, f, n) ==
  IF n = 0 THEN RZero
  ELSE Only({Round(arith, RAdd(sum, x)) : sum \in {ASum(arith, f, n - 1)}, x \in {f[n - 1]}})

ZeroHistF == [i \in HistIdx |-> RZero]

(* EchoSuppressor constants, at the scale of CfgAmdf *)
FixedConstants(arith) ==
  [kRhoThresh |-> Round(arith, R(3, 5)),
   kPowerRatioAlpha |-> Round(arith, R(13, 10)),
   kAttenLinear |-> Round(arith, R(1, 10)),
   kHangoverBlocks |-> Hangover,
   kAttack |-> Round(arith, R(1, 2)),
   kRelease |-> Round(arith, R(1, 4)),
   eps |-> Round(arith, kEps)]

(* EchoSuppressor() *)
FixedConstruct ==
  [far_hist |-> ZeroHistF, hist_pos |-> 0, gate_gain |-> ROne, hang_cnt |-> 0,
   echo_detected |-> FALSE, best_lag |-> 0, estimated_lag_samples |-> -1,
   ret |-> FALSE]

(* the inner loop of one lag: far_pow and the clamped score *)
FixedScore(arith, k, w, near, near_abs) ==
  Only({[far_pow |-> RMax(far_pow, k.eps),
         score |-> Clamp(Round(arith, RSub(ROne, Round(arith, RDiv(diff,
                     RMax(Round(arith, RAdd(near_abs, far_abs)), k.eps))))))] :
          far_pow \in
            {ASum(arith, [i \in BlockIdx |-> Round(arith, RMul(w[i], w[i]))], Block)},
          diff \in
            {ASum(arith, [i \in BlockIdx |-> RAbs(Round(arith, RSub(w[i], near[i])))],
                  Block)},
          far_abs \in {ASum(arith, [i \in BlockIdx |-> RAbs(w[i])], Block)}})

(* if (score > best_score) { best_score, best_lag, best_far_pow } *)
FixedTake(best, lag, sc) ==
  IF best.ninf \/ RLt(best.best_score, sc.score)
  THEN [ninf |-> FALSE, best_score |-> sc.score, best_lag |-> lag,
        best_far_pow |-> sc.far_pow]
  ELSE best

(* for (lag = 0; lag <= kMaxLagSamples; lag += kLagStep) *)
RECURSIVE FixedLagSearch(_, _, _, _, _, _, _, _)
FixedLagSearch(arith, k, hist, pos, near, near_abs, lag, best) ==
  IF lag > MaxLag THEN best
  ELSE FixedLagSearch(arith, k, hist, pos, near, near_abs, lag + LagStep,
         FixedTake(best, lag,
                   FixedScore(arith, k, LagWindow(hist, pos, lag), near, near_abs)))

(* steps 6 to 9: hangover, target gain, smoothing, results *)
FixedGate(arith, k, s, pushed, found, echo_detected) ==
  LET suppress == echo_detected \/ s.hang_cnt > 0
      target_gain == IF suppress THEN k.kAttenLinear ELSE ROne
      coeff == IF RLt(target_gain, s.gate_gain) THEN k.kAttack ELSE k.kRelease
  IN  [far_hist |-> pushed.far_hist, hist_pos |-> pushed.hist_pos,
       gate_gain |-> Round(arith, RAdd(
                       Round(arith, RMul(Round(arith, RSub(ROne, coeff)), s.gate_gain)),
                       Round(arith, RMul(coeff, target_gain)))),
       hang_cnt |-> IF echo_detected THEN k.kHangoverBlocks
                    ELSE IF s.hang_cnt > 0 THEN s.hang_cnt - 1 ELSE s.hang_cnt,
       echo_detected |-> echo_detected,
       best_lag |-> found.best_lag,
       estimated_lag_samples |-> IF echo_detected THEN found.best_lag ELSE -1,
       ret |-> suppress]

(* steps 4 and 5: floor of best_far_pow and the echo decision *)
FixedDecide(arith, k, s, pushed, near_pow, found) ==
  Only({FixedGate(arith, k, s, pushed, found, echo_detected) :
          echo_detected \in
            {/\ RLt(k.kRhoThresh, found.best_score)
             /\ RLt(near_pow, Round(arith, RMul(k.kPowerRatioAlpha,
                                                RMax(found.best_far_pow, k.eps))))}})

(* steps 2 and 3: near_pow, near_abs and the lag search *)
FixedSearch(arith, k, s, pushed, near) ==
  Only({FixedDecide(arith, k, s, pushed, near_pow, found) :
          near_pow \in
            {RMax(ASum(arith, [i \in BlockIdx |-> Round(arith, RMul(near[i], near[i]))],
                       Block), k.eps)},
          found \in
            {FixedLagSearch(arith, k, pushed.far_hist, pushed.hist_pos, near, near_abs, 0,
               [ninf |-> TRUE, best_score |-> RZero, best_lag |-> 0,
                best_far_pow |-> k.eps]) :
               near_abs \in
                 {RMax(ASum(arith, [i \in BlockIdx |-> RAbs(near[i])], Block), k.eps)}}})

(* EchoSuppressor::process_block of the fixed-constant suppressor *)
FixedProcessBlock(arith, s, far, near) ==
  Only({FixedSearch(arith, k, s, pushed, near) :
          k \in {FixedConstants(arith)},
          pushed \in {PushFar(s.far_hist, s.hist_pos, far, 0)}})

(* suppressor.js constants, at the same scale *)
JsConstants(arith) ==
  [RHO_THRESH |-> Round(arith, R(3, 5)),
   POWER_RATIO_ALPHA |-> Round(arith, R(13, 10)),
   ATTENUATION_LINEAR |-> Round(arith, R(1, 10)),
   HANGOVER_BLOCKS |-> Hangover,
   ATTACK |-> Round(arith, R(1, 2)),
   RELEASE |-> Round(arith, R(1, 4)),
   eps |-> Round(arith, kEps)]

(* new JsSuppressor() *)
JsConstruct ==
  [farHist |-> ZeroHistF, histPos |-> 0, gateGain |-> ROne, hangCnt |-> 0,
   echoDetected |-> FALSE, bestLag |-> 0, lag |-> -1, suppress |-> FALSE]

(* farHist[histPos] = farFloat[i]; histPos++; if (histPos >= histSize) histPos = 0 *)
(* farHist is a Float32Array                                                       *)
RECURSIVE JsPush(_, _, _, _)
JsPush(farHist, histPos, farFloat, i) ==
  IF i = Block THEN [farHist |-> farHist, histPos |-> histPos]
  ELSE JsPush([farHist EXCEPT ![histPos] = Round("float", farFloat[i])],
              IF histPos + 1 >= HistLen THEN 0 ELSE histPos + 1, farFloat, i + 1)

(* idx = histPos + base + i; idx %= histSize; if (idx < 0) idx += histSize *)
JsIndex(histPos, base, i) ==
  IF CRem(histPos + base + i, HistLen) < 0 THEN CRem(histPos + base + i, HistLen) + HistLen
  ELSE CRem(histPos + base + i, HistLen)

(* the samples fx of one lag, base = -(block + lag) *)
JsWindow(farHist, histPos, lag) ==
  [i \in BlockIdx |-> farHist[JsIndex(histPos, -(Block + lag), i)]]

(* the inner loop of one lag: farPow and the clamped score *)
JsScore(arith, k, w, nearFloat, micAbs) ==
  Only({[farPow |-> RMax(farPow, k.eps),
         score |-> Clamp(Round(arith, RSub(ROne, Round(arith, RDiv(diff,
                     RMax(Round(arith, RAdd(micAbs, farAbs)), k.eps))))))] :
          farPow \in
            {ASum(arith, [i \in BlockIdx |-> Round(arith, RMul(w[i], w[i]))], Block)},
          diff \in
            {ASum(arith, [i \in BlockIdx |->
                           RAbs(Round(arith, RSub(w[i], nearFloat[i])))], Block)},
          farAbs \in {ASum(arith, [i \in BlockIdx |-> RAbs(w[i])], Block)}})

(* a candidate that replaces the best on an equal score too *)
JsTake_OrEqual(best, lag, sc) ==
  IF best.ninf \/ RLe(best.bestScore, sc.score)
  THEN [ninf |-> FALSE, bestScore |-> sc.score, bestLag |-> lag, bestFarPow |-> sc.farPow]
  ELSE best

(* if (score > bestScore) { bestScore, bestLag, bestFarPow } *)
JsTake(best, lag, sc) ==
  IF best.ninf \/ RLt(best.bestScore, sc.score)
  THEN [ninf |-> FALSE, bestScore |-> sc.score, bestLag |-> lag, bestFarPow |-> sc.farPow]
  ELSE best

(* for (lag = 0; lag <= this.maxLagSamples; lag += this.lagStep) *)
RECURSIVE JsLagSearch(_, _, _, _, _, _, _, _)
JsLagSearch(arith, k, farHist, histPos, nearFloat, micAbs, lag, best) ==
  IF lag > MaxLag THEN best
  ELSE JsLagSearch(arith, k, farHist, histPos, nearFloat, micAbs, lag + LagStep,
         JsTake(best, lag,
                JsScore(arith, k, JsWindow(farHist, histPos, lag), nearFloat, micAbs)))

(* hangover, target gain, smoothing, results *)
JsGate(arith, k, js, pushed, found, echoDetected) ==
  LET suppress == echoDetected \/ js.hangCnt > 0
      targetGain == IF suppress THEN k.ATTENUATION_LINEAR ELSE ROne
      coeff == IF RLt(targetGain, js.gateGain) THEN k.ATTACK ELSE k.RELEASE
  IN  [farHist |-> pushed.farHist, histPos |-> pushed.histPos,
       gateGain |-> Round(arith, RAdd(
                      Round(arith, RMul(Round(arith, RSub(ROne, coeff)), js.gateGain)),
                      Round(arith, RMul(coeff, targetGain)))),
       hangCnt |-> IF echoDetected THEN k.HANGOVER_BLOCKS
                   ELSE IF js.hangCnt > 0 THEN js.hangCnt - 1 ELSE js.hangCnt,
       echoDetected |-> echoDetected,
       bestLag |-> found.bestLag,
       lag |-> IF echoDetected THEN found.bestLag ELSE -1,
       suppress |-> suppress]

(* floor of bestFarPow and the echo decision *)
JsDecide(arith, k, js, pushed, micPow, found) ==
  Only({JsGate(arith, k, js, pushed, found, echoDetected) :
          echoDetected \in
            {/\ RLt(k.RHO_THRESH, found.bestScore)
             /\ RLt(micPow, Round(arith, RMul(k.POWER_RATIO_ALPHA,
                                              RMax(found.bestFarPow, k.eps))))}})

(* micPow, micAbs and the lag search *)
JsSearch(arith, k, js, pushed, nearFloat) ==
  Only({JsDecide(arith, k, js, pushed, micPow, found) :
          micPow \in
            {RMax(ASum(arith, [i \in BlockIdx |->
                                Round(arith, RMul(nearFloat[i], nearFloat[i]))],
                       Block), k.eps)},
          found \in
            {JsLagSearch(arith, k, pushed.farHist, pushed.histPos, nearFloat, micAbs, 0,
               [ninf |-> TRUE, bestScore |-> RZero, bestLag |-> 0, bestFarPow |-> k.eps]) :
               micAbs \in
                 {RMax(ASum(arith, [i \in BlockIdx |-> RAbs(nearFloat[i])], Block),
                       k.eps)}}})

(* JsSuppressor.processFloat(farFloat, nearFloat) *)
processFloat(arith, js, farFloat, nearFloat) ==
  Only({JsSearch(arith, k, js, pushed, nearFloat) :
          k \in {JsConstants(arith)},
          pushed \in {JsPush(js.farHist, js.histPos, farFloat, 0)}})

(* both suppressors after construction, and the same pair in real arithmetic *)
NoPort ==
  [cpp |-> FixedConstruct, js |-> JsConstruct,
   cppReal |-> FixedConstruct, jsReal |-> JsConstruct,
   n |-> 0, agreed |-> TRUE]

(* one block given to all four *)
PortStep(cpp, js, cppReal, jsReal, n, agreed) ==
  [cpp |-> cpp, js |-> js, cppReal |-> cppReal, jsReal |-> jsReal, n |-> n + 1,
   agreed |-> (agreed /\ cpp.echo_detected = js.echoDetected)]

----------------------------------------------------------------------------
(* The 16-bit path of cancel_file, echoback and JsSuppressor.processInt16  *)

(* static_cast<float>(sample) * kInvScale, kInvScale = 1.0f / 32768.0f *)
ToFloat(sample) == R(sample, 32768)

(* std::max(-1.0f, std::min(1.0f, x)) *)
ClampUnit(x) ==
  IF RLt(ROne, x) THEN ROne
  ELSE IF RLt(x, RInt(-1)) THEN RInt(-1)
  ELSE x

(* sample scaled by one more than kScale *)
Scale16_Full(x) == RMul(x, RInt(32768))

(* sample * kScale, kScale = 32767.0f *)
Scale16(x) == RMul(x, RInt(32767))

(* std::lrintf: to nearest, ties to even *)
Lrintf(x) == IF x.n >= 0 THEN RoundHalfEven(x) ELSE -RoundHalfEven(RNeg(x))

(* Math.round: floor(x + 0.5) *)
MathRound(x) ==
  IF 2 * (x.n - (x.n \div x.d) * x.d) >= x.d THEN (x.n \div x.d) + 1 ELSE x.n \div x.d

(* static_cast<int16_t>(v), and a store into an Int16Array *)
ToInt16(v) == ((v + 32768) % 65536) - 32768

(* out[i] = mic[i] * gate_gain_, clamped and re-encoded by the C++ front ends *)
EncodeCpp(sample, gain) ==
  ToInt16(Lrintf(Scale16(ClampUnit(RMul(ToFloat(sample), gain)))))

(* outBlock[i] = nearFloat[i] * appliedGain, clamped and re-encoded by processInt16 *)
EncodeJs(sample, gain) ==
  ToInt16(MathRound(Scale16(ClampUnit(RMul(ToFloat(sample), gain)))))

(* a sample and a gain not yet encoded *)
Unencoded(sample, gain) ==
  [s |-> sample, gain |-> gain, cpp |-> 0, js |-> 0, done |-> FALSE]

NoPcm == Unencoded(0, ROne)

(* the fields of State kept in echo, after main has parsed the arguments *)
EchoInit(running, passthrough, loopback) ==
  [running |-> running, passthrough |-> passthrough,
   loopback_delay_target_samples |-> loopback,
   far_delay_line |-> <<>>, jitter |-> <<>>, out_dev |-> <<>>,
   suppressor |-> FixedConstruct, block_counter |-> 0,
   lag_history |-> <<>>, lag_sum |-> 0, lag_last |-> -1, lag_stats_ready |-> FALSE,
   blocks |-> <<>>, emitted |-> 0, underrun |-> 0, out |-> <<>>, callbacks |-> 0,
   frames |-> {}]

NoEcho == EchoInit(FALSE, FALSE, 0)

(* echoback.js after its top-level code has run *)
JsEchoInit(running, passthrough, jitterSamplesTarget, loopbackDelaySamples) ==
  [running |-> running, passthrough |-> passthrough,
   jitterSamplesTarget |-> jitterSamplesTarget,
   loopbackDelaySamples |-> loopbackDelaySamples,
   refQ |-> <<>>, jitterQ |-> <<>>, loopbackDelayLine |-> <<>>, loopbackDelayStart |-> 0,
   needJitter |-> (jitterSamplesTarget > 0), blockCounter |-> 0,
   suppressor |-> JsConstruct,
   lagHistory |-> <<>>, lagSum |-> 0, lagLast |-> -1, lagStatsReady |-> FALSE,
   blocks |-> <<>>, played |-> <<>>, ticks |-> 0]

NoJsEcho == JsEchoInit(FALSE, FALSE, 0, 0)

(* a file that cannot be read as a 16 kHz mono PCM16 WAV *)
Unreadable == [ok |-> FALSE, samples |-> <<>>]

(* cancel_file before it is started *)
ToolInit(program, args, renderWav, captureWav, writable) ==
  [program |-> program, args |-> args,
   files |-> [path \in {"render.wav", "capture.wav"} |->
                IF path = "render.wav" THEN renderWav ELSE captureWav],
   writable |-> writable,
   done |-> FALSE, status |-> -1, processed |-> <<>>, wrote |-> FALSE, output |-> <<>>]

NoTool == ToolInit("cancel_file", <<>>, Unreadable, Unreadable, TRUE)

(* both ends and the middle of the 16-bit range, and a stride across it *)
PcmSamples ==
  {x \in -32768 .. 32767 :
     \/ Abs(x) <= 40
     \/ Abs(x) >= 32728
     \/ Abs(Abs(x) - 16384) <= 2
     \/ x % 1021 = 0}

(* gains in [0, 1]: the ends, the muted gain, and values between *)
PcmGains ==
  {RZero, R(1, 10000), R(1, 10), R(1, 4), R(1, 3), R(1, 2), R(2, 3), ROne}

----------------------------------------------------------------------------
(* State *)

VARIABLES
  config,        \* config_
  atten_linear,  \* atten_linear_
  far_hist,      \* far_hist_
  hist_pos,      \* hist_pos_
  gate_gain,     \* gate_gain_
  hang_cnt,      \* hang_cnt_
  op,            \* the last operation called on the object
  call,          \* arguments and results of the last process_block call
  stream,        \* every far-end sample delivered since construction or reset
  ncalls,        \* process_block calls since construction or reset
  nresets,       \* reset calls so far
  since,         \* non-detected blocks since the last detected one, -1 if none
  quiet,         \* every block since construction or reset was all zero
  wide,          \* the last call drew its blocks from the wide input sets
  fresh,         \* a second suppressor, constructed anew at each reset
  meter,         \* the gain last shown and its meter strings (C++, JavaScript)
  delay_target_samples,  \* State::delay_target_samples
  delay_line,    \* State::delay_line
  rec_dev,       \* State::rec_dev
  captureDelayLine,   \* echoback.js
  captureDelayStart,  \* echoback.js
  recQ,          \* echoback.js
  captured,      \* every sample captured so far
  scored,        \* the window and microphone block last scored, with the scores
  port,          \* the C++ suppressor and its JavaScript port, fed the same blocks
  pcm,           \* a 16-bit sample, a gain, and the sample re-encoded (C++, JavaScript)
  echo,          \* echoback (C++): the rest of State, and what each block was made of
  jsEcho,        \* echoback.js: its queues and counters, and what each block was made of
  tool           \* cancel_file: the command line, the two files, and how the run ended

(* the state of the front ends (echoback, cancel_file) around the suppressor *)
capture == <<delay_target_samples, delay_line, rec_dev,
             captureDelayLine, captureDelayStart, recQ, captured>>

front == <<meter, capture, scored, port, pcm, echo, jsEcho, tool>>

(* the suppressor and what is recorded of its calls *)
core == <<config, atten_linear, far_hist, hist_pos, gate_gain, hang_cnt,
          op, call, stream, ncalls, nresets, since, quiet, wide, fresh>>

vars == <<config, atten_linear, far_hist, hist_pos, gate_gain, hang_cnt,
          op, call, stream, ncalls, nresets, since, quiet, wide, fresh,
          meter, delay_target_samples, delay_line, rec_dev,
          captureDelayLine, captureDelayStart, recQ, captured, scored, port, pcm, echo, jsEcho, tool>>

Obj == [config |-> config, atten_linear |-> atten_linear, far_hist |-> far_hist,
        hist_pos |-> hist_pos, gate_gain |-> gate_gain, hang_cnt |-> hang_cnt]

Install(o) ==
  /\ config' = o.config
  /\ atten_linear' = o.atten_linear
  /\ far_hist' = o.far_hist
  /\ hist_pos' = o.hist_pos
  /\ gate_gain' = o.gate_gain
  /\ hang_cnt' = o.hang_cnt

(* what the caller sees of one call *)
Outputs(r) ==
  [out |-> r.out, applied_gain |-> r.applied_gain,
   estimated_lag_samples |-> r.estimated_lag_samples, ret |-> r.ret]

NoCall ==
  [far |-> ZeroBlock, mic |-> ZeroBlock, prev |-> Construct(config),
   res |-> process_block(Construct(config), ZeroBlock, ZeroBlock)]

NoOutputs == Outputs(process_block(Construct(config), ZeroBlock, ZeroBlock))

----------------------------------------------------------------------------
(* Configurations and input blocks *)

CfgAmdf ==
  [rho_thresh |-> R(3, 5), power_ratio_alpha |-> R(13, 10), atten_db |-> -20,
   hangover_blocks |-> Hangover, attack |-> R(1, 2), release |-> R(1, 4),
   lag_metric |-> "kAMDF"]

CfgNcc ==
  [rho_thresh |-> R(3, 5), power_ratio_alpha |-> R(13, 10), atten_db |-> -20,
   hangover_blocks |-> Hangover, attack |-> ROne, release |-> R(1, 4),
   lag_metric |-> "kNCC"]

(* thresholds that the sample grid can hit exactly *)
CfgEdge ==
  [rho_thresh |-> R(2, 3), power_ratio_alpha |-> ROne, atten_db |-> -20,
   hangover_blocks |-> 1, attack |-> R(1, 2), release |-> ROne,
   lag_metric |-> "kAMDF"]

RunConfigs == {CfgAmdf, CfgNcc}
WideConfigs == {CfgAmdf, CfgNcc, CfgEdge}

(* a block from its first sample and the value of the other samples *)
Shape(a, b) == [i \in BlockIdx |-> IF i = 0 THEN a ELSE b]

FarSamples == {-2, 0, 1}
MicSamples == {-2, -1, 0, 1}
WideFarBlocks == {Shape(a, b) : a, b \in FarSamples}
WideMicBlocks == {Shape(a, b) : a, b \in MicSamples}

(* the blocks of a long run: silence, a far-end tone with its echo, and a  *)
(* far-end tone under loud near-end speech                                *)
Tone == Shape(-1, 1)
Loud == Shape(2, 2)
RunInputs ==
  { [far |-> ZeroBlock, mic |-> ZeroBlock],
    [far |-> Tone, mic |-> Tone],
    [far |-> Tone, mic |-> Loud] }

BlockSeq(b) == [i \in 1 .. Block |-> b[i - 1]]
IsZero(b) == \A i \in BlockIdx : b[i] = 0

----------------------------------------------------------------------------
(* Actions *)

(* nothing shown yet, no capture delay, empty queues *)
NoMeter == [gain |-> ROne, cpp |-> "", js |-> ""]

(* the queues of echoback (C++ and JavaScript) before the first callback *)
InitQueues ==
  /\ delay_line = <<>>
  /\ rec_dev = <<>>
  /\ captureDelayLine = <<>>
  /\ captureDelayStart = 0
  /\ recQ = <<>>
  /\ captured = <<>>

InitFront ==
  /\ meter = NoMeter
  /\ delay_target_samples = 0
  /\ InitQueues
  /\ scored = NoScore
  /\ port = NoPort
  /\ pcm = NoPcm
  /\ echo = NoEcho
  /\ jsEcho = NoJsEcho
  /\ tool = NoTool

InitCore(configs) ==
  /\ \E c \in configs : 
       /\ config = c
       /\ atten_linear = Construct(c).atten_linear
       /\ far_hist = Construct(c).far_hist
       /\ hist_pos = Construct(c).hist_pos
       /\ gate_gain = Construct(c).gate_gain
       /\ hang_cnt = Construct(c).hang_cnt
  /\ op = "construct"
  /\ call = NoCall
  /\ stream = <<>>
  /\ ncalls = 0
  /\ nresets = 0
  /\ since = -1
  /\ quiet = TRUE
  /\ wide = FALSE
  /\ fresh = [obj |-> Construct(config), outputs |-> NoOutputs]

InitWith(configs) == InitCore(configs) /\ InitFront

Init == InitWith(RunConfigs)
InitWide == InitWith(WideConfigs)

(* one process_block(far, mic, out, &applied_gain, &estimated_lag_samples) *)
Call(far, mic) ==
  \E r \in {process_block(Obj, far, mic)}, f \in {process_block(fresh.obj, far, mic)} :
      /\ Install(r.obj)
      /\ op' = "process_block"
      /\ call' = [far |-> far, mic |-> mic, prev |-> Obj, res |-> r]
      /\ stream' = stream \o BlockSeq(far)
      /\ ncalls' = ncalls + 1
      /\ since' = IF r.echo_detected THEN 0
                  ELSE IF since >= 0 THEN since + 1 ELSE since
      /\ quiet' = (quiet /\ IsZero(far) /\ IsZero(mic))
      /\ fresh' = [obj |-> f.obj, outputs |-> Outputs(f)]
      /\ UNCHANGED nresets
      /\ UNCHANGED front

ProcessBlock ==
  /\ ncalls < MaxRunBlocks
  /\ \E p \in RunInputs : Call(p.far, p.mic)
  /\ UNCHANGED wide

(* a short run of ordinary blocks ... *)
ProcessPrefixBlock ==
  /\ ~wide
  /\ ncalls < MaxBlocks
  /\ \E p \in RunInputs : Call(p.far, p.mic)
  /\ UNCHANGED wide

(* ... closed by one call on any pair of blocks of the wide sets *)
ProcessWideBlock ==
  /\ ~wide
  /\ ncalls <= MaxBlocks
  /\ \E far \in WideFarBlocks, mic \in WideMicBlocks : Call(far, mic)
  /\ wide' = TRUE

Reset ==
  /\ nresets < MaxResets
  /\ Install(reset(Obj))
  /\ op' = "reset"
  /\ stream' = <<>>
  /\ ncalls' = 0
  /\ nresets' = nresets + 1
  /\ since' = -1
  /\ quiet' = TRUE
  /\ fresh' = [obj |-> Construct(config), outputs |-> NoOutputs]
  /\ UNCHANGED <<call, wide>>
  /\ UNCHANGED front

Next == ProcessBlock \/ Reset
Spec == Init /\ [][Next]_vars

NextWide == ProcessPrefixBlock \/ ProcessWideBlock
SpecWide == InitWide /\ [][NextWide]_vars

TypeOK ==
  /\ hist_pos \in HistIdx
  /\ hang_cnt \in Nat

----------------------------------------------------------------------------
(* Properties *)

Called == op = "process_block"
H == config.hangover_blocks
Active == call.res.ret /\ call.res.target_gain = atten_linear
Released == ~call.res.ret /\ call.res.target_gain = ROne

(* C1, as stated: after a detected block followed only by non-detected     *)
(* blocks, suppression is Active on the first H-1 non-detected blocks and  *)
(* released on the H-th.                                                   *)
C1_ReleaseOnHth ==
  (Called /\ H >= 1 /\ since >= 1) =>
     /\ (since <= H - 1 => Active)
     /\ (since = H => Released)

(* C1, amended: after a detected block followed only by non-detected       *)
(* blocks, suppression is Active (muted target, return value true) on the  *)
(* first H non-detected blocks and released (unity target, return value    *)
(* false) on the (H+1)-th.                                                 *)
C1_HangoverPersistence ==
  (Called /\ H >= 1 /\ since >= 1) =>
     /\ (since <= H => Active /\ hang_cnt = H - since)
     /\ (since = H + 1 => Released)

C1_Witness ==
  /\ Called /\ H >= 1 /\ since = H + 1
  /\ Released
  /\ call.prev.hang_cnt = 0

(* C2: from a freshly constructed or reset suppressor, on every block of   *)
(* a run of all-zero reference and microphone blocks, echo is not declared *)
(* (lag output -1), suppression is not engaged and the gain stays at 1.0,  *)
(* under AMDF as under NCC.                                                *)
C2_SilenceStability ==
  (Called /\ quiet) =>
     /\ call.res.estimated_lag_samples = -1
     /\ ~call.res.ret
     /\ call.res.target_gain = ROne
     /\ gate_gain = ROne

(* C3: in every state reachable by process_block and reset calls, the      *)
(* smoothed gain, and the applied gain returned for every block, lies in   *)
(* [mutedLinearGain, 1].                                                   *)
C3_GainRange ==
  /\ RLe(atten_linear, gate_gain)
  /\ RLe(gate_gain, ROne)
  /\ Called => /\ RLe(atten_linear, call.res.applied_gain)
               /\ RLe(call.res.applied_gain, ROne)

C3_Witness ==
  /\ Called
  /\ nresets >= 1
  /\ RLe(RZero, config.attack) /\ RLe(config.attack, ROne)
  /\ RLe(RZero, config.release) /\ RLe(config.release, ROne)
  /\ RLe(RZero, atten_linear) /\ RLe(atten_linear, ROne)
  /\ RLt(atten_linear, call.res.applied_gain)
  /\ RLt(call.res.applied_gain, ROne)
  /\ RLt(call.prev.gate_gain, call.res.applied_gain)

----------------------------------------------------------------------------
(* The far-end stream as the caller delivered it, against which the lag    *)
(* search of the last call is read.                                        *)

(* far-end sample at stream position p, zero before the stream starts *)
RefSample(p) == IF p >= 0 THEN stream[p + 1] ELSE 0

(* the far-end samples delivered L samples before those of the last block *)
RefWindow(L) == [i \in BlockIdx |-> RefSample((ncalls - 1) * Block + i - L)]

CandLags == {l \in 0 .. MaxLag : l % LagStep = 0}

(* score and reference power of every candidate lag for the last call *)
RefTable ==
  { [lag |-> l,
     score |-> LagScore(config, RefWindow(l), call.mic),
     pow |-> FarPow(RefWindow(l))] : l \in CandLags }

MaxScored(T) == {p \in T : \A q \in T : ~ScoreGt(q.score, p.score)}
Winner(T) == CHOOSE p \in MaxScored(T) : \A q \in MaxScored(T) : p.lag <= q.lag

SameScore(s, t) == ~ScoreGt(s, t) /\ ~ScoreGt(t, s)

(* C4: echo is declared iff bestScore > similarityThreshold and            *)
(* microphonePower < powerRatioCeiling x bestReferencePower (both strict), *)
(* with bestReferencePower the floored power of the window at the winning  *)
(* lag; the lag output is the winning lag when declared and -1 otherwise.  *)
C4_EchoDecisionRule ==
  Called =>
    LET w == Winner(RefTable)
        declared == /\ ScoreGt(w.score, ScoreOf(config.rho_thresh))
                    /\ RLt(MicPow(call.mic), RMul(config.power_ratio_alpha, w.pow))
    IN  /\ call.res.echo_detected <=> declared
        /\ call.res.estimated_lag_samples = (IF declared THEN w.lag ELSE -1)

(* a block decided on the boundary of one of the two inequalities *)
C4_Witness ==
  /\ Called
  /\ ~call.res.echo_detected
  /\ call.res.estimated_lag_samples = -1
  /\ LET w == Winner(RefTable)
     IN  \/ /\ SameScore(w.score, ScoreOf(config.rho_thresh))
            /\ RLt(MicPow(call.mic), RMul(config.power_ratio_alpha, w.pow))
         \/ /\ ScoreGt(w.score, ScoreOf(config.rho_thresh))
            /\ MicPow(call.mic) = RMul(config.power_ratio_alpha, w.pow)

Scales == {R(1, 2), ROne, RInt(2)}

(* the microphone block is c times the far-end window at lag L *)
ScaledCopy(L, c) == \A i \in BlockIdx : call.mic[i] * c.d = c.n * RefWindow(L)[i]

PowerRatioHolds(L) ==
  RLt(MicPow(call.mic), RMul(config.power_ratio_alpha, FarPow(RefWindow(L))))

ScoreAt(L) == LagScore(config, RefWindow(L), call.mic)

(* C5, as stated: if the microphone block is the far-end signal delivered  *)
(* L samples earlier (L a candidate lag, the window non-silent), scaled so *)
(* that the power-ratio condition holds, the search selects lag L and echo *)
(* is declared with estimated lag L.                                       *)
C5_SelectsLagL ==
  Called =>
    \A L \in CandLags :
      ( /\ ~IsZero(RefWindow(L))
        /\ \E c \in Scales : ScaledCopy(L, c)
        /\ PowerRatioHolds(L) )
      => /\ call.res.best_lag = L
         /\ call.res.echo_detected
         /\ call.res.estimated_lag_samples = L

(* the window's power is not below the epsilon floor *)
AboveFloor(L) ==
  RLe(kEps, R(SumTo([i \in BlockIdx |-> RefWindow(L)[i] * RefWindow(L)[i]], Block),
              SampleDen * SampleDen))

(* an exact copy, or under NCC a positively scaled one whose power is not  *)
(* floored either                                                          *)
PerfectEcho(L) ==
  /\ AboveFloor(L)
  /\ \/ ScaledCopy(L, ROne)
     \/ /\ config.lag_metric = "kNCC"
        /\ \E c \in Scales : ScaledCopy(L, c) /\ RLe(kEps, RMul(RMul(c, c), FarPow(RefWindow(L))))
  /\ PowerRatioHolds(L)
  /\ RLt(config.rho_thresh, ROne)

(* C5, amended: under these conditions lag L obtains the maximal score;    *)
(* the search selects the smallest candidate lag with that score; when no  *)
(* smaller candidate lag ties with L, it selects L and echo is declared    *)
(* with estimated lag L.                                                   *)
C5_PerfectEchoDetection ==
  Called =>
    \A L \in CandLags :
      PerfectEcho(L) =>
        /\ \A m \in CandLags : ~ScoreGt(ScoreAt(m), ScoreAt(L))
        /\ call.res.best_lag <= L
        /\ SameScore(ScoreAt(call.res.best_lag), ScoreAt(L))
        /\ (\A m \in CandLags : m < L => ScoreGt(ScoreAt(L), ScoreAt(m)))
             => /\ call.res.best_lag = L
                /\ call.res.echo_detected
                /\ call.res.estimated_lag_samples = L

(* a perfect echo at a positive lag, found *)
C5_Witness ==
  /\ Called
  /\ \E L \in CandLags :
       /\ L > 0
       /\ PerfectEcho(L)
       /\ \A m \in CandLags : m < L => ScoreGt(ScoreAt(L), ScoreAt(m))
       /\ call.res.estimated_lag_samples = L

----------------------------------------------------------------------------
(* C7: after k process_block calls since construction or reset the         *)
(* circular history (capacity maxLag + 4 x blockLength) holds the most     *)
(* recent `capacity` far-end samples in arrival order, unwritten positions *)
(* being zero; the cursor is (k x blockLength) mod capacity; a call        *)
(* overwrites the blockLength oldest samples and nothing else.             *)
C7_HistoryContent ==
  /\ DOMAIN far_hist = 0 .. (MaxLag + 4 * Block - 1)
  /\ hist_pos = (ncalls * Block) % HistLen
  /\ \A k \in 0 .. (HistLen - 1) :
       far_hist[(hist_pos - 1 - k) % HistLen] =
         (IF k < Len(stream) THEN stream[Len(stream) - k] ELSE 0)
  /\ Called =>
       \A j \in HistIdx :
         IF \E i \in BlockIdx : j = (call.prev.hist_pos + i) % HistLen
         THEN far_hist[j] = call.far[(j - call.prev.hist_pos) % HistLen]
         ELSE far_hist[j] = call.prev.far_hist[j]

(* the cursor has wrapped and the call overwrote older, different samples *)
C7_Witness ==
  /\ Called
  /\ Len(stream) > HistLen
  /\ hist_pos < Len(stream)
  /\ \E i \in BlockIdx :
       /\ call.prev.far_hist[(call.prev.hist_pos + i) % HistLen] # 0
       /\ call.prev.far_hist[(call.prev.hist_pos + i) % HistLen] # call.far[i]

(* C8: reset restores gain 1, hangover 0, cursor 0 and an all-zero        *)
(* history, keeps capacity and configuration, and is idempotent; every    *)
(* later call returns what a freshly constructed suppressor returns for   *)
(* the same blocks.                                                        *)
C8_ResetEquivalence ==
  /\ op = "reset" =>
       /\ gate_gain = ROne
       /\ hang_cnt = 0
       /\ hist_pos = 0
       /\ far_hist = ZeroHist
       /\ Obj = Construct(fresh.obj.config)
  /\ reset(reset(Obj)) = reset(Obj)
  /\ DOMAIN far_hist = HistIdx
  /\ config = fresh.obj.config
  /\ Called => Outputs(call.res) = fresh.outputs

(* a reset that took place with the hangover running, the gain lowered *)
(* and the history written                                              *)
C8_Witness ==
  /\ op = "reset"
  /\ ~IsZero(call.far)
  /\ call.res.obj.hang_cnt > 0
  /\ RLt(call.res.obj.gate_gain, ROne)
  /\ call.res.obj.hist_pos # 0
  /\ hang_cnt = 0
  /\ gate_gain = ROne
  /\ far_hist = ZeroHist

(* C9: output sample i is microphone sample i times the gain obtained     *)
(* after this block's smoothing update, for every i; the applied gain      *)
(* returned is that multiplier; the output has the length of the inputs    *)
(* and is not clipped.                                                     *)
C9_BlockApplier ==
  Called =>
    /\ DOMAIN call.res.out = DOMAIN call.mic
    /\ DOMAIN call.res.out = BlockIdx
    /\ call.res.applied_gain = gate_gain
    /\ \A i \in BlockIdx : call.res.out[i] = RMul(Sample(call.mic[i]), gate_gain)

(* the gain changed on this block and a full-scale sample went through *)
C9_Witness ==
  /\ Called
  /\ gate_gain # call.prev.gate_gain
  /\ \E i \in BlockIdx :
       /\ call.mic[i] = -2
       /\ call.res.out[i] = RNeg(gate_gain)
       /\ call.res.out[i] # RNeg(call.prev.gate_gain)
       /\ RLt(call.res.out[i], R(-1, 2))

(* C10: suppression is engaged on every detected block and on the H       *)
(* non-detected blocks that follow; on every further non-detected block    *)
(* the target gain is 1.0 and the applied gain rises towards 1.0.          *)
C10_GatingSequence ==
  Called =>
    /\ call.res.echo_detected => (since = 0 /\ Active)
    /\ (since >= 1 /\ since <= H) => Active
    /\ since > H =>
         /\ Released
         /\ RLe(call.prev.gate_gain, call.res.applied_gain)
         /\ RLe(call.res.applied_gain, ROne)
         /\ RLt(call.prev.gate_gain, ROne) =>
              RLt(call.prev.gate_gain, call.res.applied_gain)

(* two released blocks in a row after a hangover, the gain still rising *)
C10_Witness ==
  /\ Called
  /\ H >= 1
  /\ since = H + 2
  /\ Released
  /\ RLt(call.prev.gate_gain, call.res.applied_gain)
  /\ RLt(call.res.applied_gain, ROne)

----------------------------------------------------------------------------
(* Two suppressors side by side: the object is fed a far-end tone and its  *)
(* echo on every block, so that suppression is Active on every block and   *)
(* its gain falls toward the muted gain; the second one is fed the tone    *)
(* under loud near-end speech, so that it never suppresses and its gain    *)
(* rises toward 1.  They start at the same distance from their targets.    *)

SmoothCoeffs == {R(1, 4), R(1, 2), R(3, 4), R(9, 10), ROne}

SmoothConfigs ==
  { [CfgNcc EXCEPT !.attack = p[1], !.release = p[2]] :
      p \in {q \in SmoothCoeffs \X SmoothCoeffs : RLt(q[2], q[1])} }

(* starting distances to the target: the whole range 1 - muted gain, and   *)
(* two shorter ones                                                        *)
SmoothOffsets == {R(9, 10), R(1, 2), R(1, 10)}

InitSmooth ==
  /\ \E c \in SmoothConfigs, d \in SmoothOffsets :
       /\ config = c
       /\ atten_linear = Construct(c).atten_linear
       /\ far_hist = Construct(c).far_hist
       /\ hist_pos = Construct(c).hist_pos
       /\ gate_gain = RAdd(Construct(c).atten_linear, d)
       /\ hang_cnt = Construct(c).hang_cnt
       /\ fresh = [obj |-> [Construct(c) EXCEPT !.gate_gain = RSub(ROne, d)],
                   outputs |-> NoOutputs,
                   prev |-> [Construct(c) EXCEPT !.gate_gain = RSub(ROne, d)]]
  /\ op = "construct"
  /\ call = NoCall
  /\ stream = <<>>
  /\ ncalls = 0
  /\ nresets = 0
  /\ since = -1
  /\ quiet = TRUE
  /\ wide = FALSE
  /\ InitFront

(* one block for each of the two suppressors *)
SmoothBlock ==
  /\ ncalls < MaxSmoothBlocks
  /\ \E r \in {process_block(Obj, Tone, Tone)}, f \in {process_block(fresh.obj, Tone, Loud)} :
       /\ Install(r.obj)
       /\ op' = "process_block"
       /\ call' = [far |-> Tone, mic |-> Tone, prev |-> Obj, res |-> r]
       /\ stream' = stream \o BlockSeq(Tone)
       /\ ncalls' = ncalls + 1
       /\ since' = IF r.echo_detected THEN 0
                   ELSE IF since >= 0 THEN since + 1 ELSE since
       /\ quiet' = FALSE
       /\ fresh' = [obj |-> f.obj, outputs |-> Outputs(f), prev |-> fresh.obj]
       /\ UNCHANGED <<nresets, wide>>
       /\ UNCHANGED front

NextSmooth == SmoothBlock
SpecSmooth == InitSmooth /\ [][NextSmooth]_vars

(* 1% of the gain range *)
OnePercent == R(1, 100)
Dist(g, target) == RAbs(RSub(g, target))
Within(g, target) == RLe(Dist(g, target), OnePercent)

(* the falling gain after, and before, the last block *)
FallDist == Dist(gate_gain, atten_linear)
FallWithin == Within(gate_gain, atten_linear)
FallWithinBefore == Within(call.prev.gate_gain, atten_linear)
(* the rising gain after, and before, the last block *)
RiseDist == Dist(fresh.obj.gate_gain, ROne)
RiseWithin == Within(fresh.obj.gate_gain, ROne)
RiseWithinBefore == Within(fresh.prev.gate_gain, ROne)

(* every block so far was suppressed for the first suppressor and not for  *)
(* the second                                                              *)
SmoothRun == Called /\ call.res.ret /\ ~fresh.outputs.ret

(* C11, as stated: with attack > release, from the same distance to their  *)
(* targets, the gain falls to within 1% of the muted gain in fewer blocks  *)
(* than it rises to within 1% of unity: on the block where the rising gain *)
(* arrives, the falling gain had arrived on an earlier block.              *)
C11_FewerBlocks ==
  (SmoothRun /\ RiseWithin /\ ~RiseWithinBefore) => FallWithinBefore

(* C11, amended: with attack > release (both in (0, 1]), from the same     *)
(* distance to their targets, after every number of blocks the falling     *)
(* gain is closer to the muted gain than the rising gain is to unity, so   *)
(* the number of suppressed blocks needed to come within 1% of the muted   *)
(* gain is never larger than the number of unsuppressed blocks needed to   *)
(* come within 1% of unity; the two numbers can be equal.                  *)
C11_AttackNotSlower ==
  /\ RLe(FallDist, RiseDist)
  /\ RiseWithin => FallWithin
  /\ SmoothRun => /\ RLt(FallDist, RiseDist)
                  /\ RLt(atten_linear, call.prev.gate_gain) =>
                        call.res.coeff = config.attack
                  /\ RiseWithinBefore => FallWithinBefore

C11_Witness ==
  /\ SmoothRun
  /\ RLt(config.release, config.attack)
  /\ RiseWithin /\ ~RiseWithinBefore
  /\ FallWithinBefore
  /\ call.prev.gate_gain # gate_gain

----------------------------------------------------------------------------
(* Configurations with a negative hangover length, handed to the           *)
(* constructor as they are, or through the command line of echoback.       *)

(* std::max(0, std::stoi(value)) *)
ParseHang(v) == IF v < 0 THEN 0 ELSE v

NegHangovers == {-2, -1}

NegConfigs ==
  { [c EXCEPT !.hangover_blocks = h] : c \in RunConfigs, h \in NegHangovers }
  \cup { [c EXCEPT !.hangover_blocks = ParseHang(h)] : c \in RunConfigs, h \in NegHangovers }

InitNeg == InitWith(NegConfigs)
SpecNeg == InitNeg /\ [][Next]_vars

(* C12: with a negative hangover length in the configuration of the        *)
(* suppressor, the hangover counter is never negative and suppression is   *)
(* Active only on the blocks on which echo is detected.                    *)
C12_NegativeHangoverClamp ==
  (H < 0) =>
     /\ hang_cnt >= 0
     /\ Called => (call.res.ret <=> call.res.echo_detected)

----------------------------------------------------------------------------
(* The gain meter of the front ends.  A float gain is m * 2^-28 here (the  *)
(* floats of [1/32, 2) are all of this form), so that the float literal    *)
(* 0.05f, which is 13421773 * 2^-28 and lies above 1/20, is told from the  *)
(* JavaScript literal 0.05.                                                *)

F32(m) == R(m, 268435456)

(* std::clamp(gain, 0.0f, 1.0f) *)
ClampGain(gain) ==
  IF RLt(gain, RZero) THEN RZero ELSE IF RLt(ROne, gain) THEN ROne ELSE gain

(* the meter with every threshold given to the upper level *)
GainMeterString_Strict(gain) ==
  IF RLt(ClampGain(gain), F32(13421773)) THEN "    "
  ELSE IF RLt(ClampGain(gain), R(1, 4)) THEN "*   "
  ELSE IF RLt(ClampGain(gain), R(1, 2)) THEN "**  "
  ELSE IF RLt(ClampGain(gain), R(3, 4)) THEN "*** "
  ELSE "****"

(* C++: the thresholds are the float literals 0.05f, 0.25f, 0.50f, 0.75f *)
GainMeterString(gain) ==
  IF RLe(ClampGain(gain), F32(13421773)) THEN "    "
  ELSE IF RLe(ClampGain(gain), R(1, 4)) THEN "*   "
  ELSE IF RLe(ClampGain(gain), R(1, 2)) THEN "**  "
  ELSE IF RLe(ClampGain(gain), R(3, 4)) THEN "*** "
  ELSE "****"

(* Math.max(0, Math.min(1, gain)) *)
MathMaxMin(gain) ==
  RMax(RZero, IF RLt(gain, ROne) THEN gain ELSE ROne)

(* JavaScript: the thresholds are the double literals 0.05, 0.25, 0.50, 0.75 *)
gainMeterString(gain) ==
  IF RLe(MathMaxMin(gain), R(1, 20)) THEN "    "
  ELSE IF RLe(MathMaxMin(gain), R(1, 4)) THEN "*   "
  ELSE IF RLe(MathMaxMin(gain), R(1, 2)) THEN "**  "
  ELSE IF RLe(MathMaxMin(gain), R(3, 4)) THEN "*** "
  ELSE "****"

(* float gains: a regular grid from -1/4 to 3/2, and the floats at and     *)
(* next to 0, 0.05f, 0.25, 0.5, 0.75 and 1                                 *)
MeterGains ==
  { F32((268435456 \div MeterGrid) * k) :
      k \in -(MeterGrid \div 4) .. (MeterGrid + MeterGrid \div 2) }
  \cup { F32(m) : m \in { -1, 0, 1,
                          13421772, 13421773, 13421774,
                          67108860, 67108864, 67108872,
                          134217720, 134217728, 134217744,
                          201326576, 201326592, 201326608,
                          268435440, 268435456, 268435488 } }

(* the front end shows the meter of a gain *)
ShowMeter ==
  /\ \E g \in MeterGains :
       meter' = [gain |-> g, cpp |-> GainMeterString(g), js |-> gainMeterString(g)]
  /\ UNCHANGED core
  /\ UNCHANGED <<capture, scored, port, pcm, echo, jsEcho, tool>>

InitMeter == InitWith({CfgAmdf})
NextMeter == ShowMeter
SpecMeter == InitMeter /\ [][NextMeter]_vars

Shown == meter # NoMeter

Stars(m) ==
  CASE m = "    " -> 0
    [] m = "*   " -> 1
    [] m = "**  " -> 2
    [] m = "*** " -> 3
    [] m = "****" -> 4

(* the level of a gain for a 5% threshold t: thresholds belong to the      *)
(* lower level, gains below 0 count as 0 and gains above 1 as 1            *)
MeterLevel(g, t) ==
  IF RLe(g, t) THEN 0
  ELSE IF RLe(g, R(1, 4)) THEN 1
  ELSE IF RLe(g, R(1, 2)) THEN 2
  ELSE IF RLe(g, R(3, 4)) THEN 3
  ELSE 4

(* the gains on which the two literals for 5% disagree *)
BetweenLiterals(g) == RLt(R(1, 20), g) /\ RLe(g, F32(13421773))

(* C13, as stated: 0 stars for gain <= 0.05, 1 star for gain <= 0.25, 2    *)
(* for gain <= 0.50, 3 for gain <= 0.75 and 4 otherwise, after clamping    *)
(* into [0, 1]; the number of stars does not decrease with the gain; the   *)
(* C++ and the JavaScript meter return the same string for the same gain.  *)
C13_GainMeterAsStated ==
  Shown =>
    /\ Stars(meter.cpp) = MeterLevel(meter.gain, R(1, 20))
    /\ Stars(meter.js) = MeterLevel(meter.gain, R(1, 20))
    /\ \A h \in MeterGains :
         RLe(h, meter.gain) => Stars(GainMeterString(h)) <= Stars(meter.cpp)
    /\ meter.cpp = meter.js

(* C13, amended: after clamping into [0, 1] the meter has 0 stars up to    *)
(* the 5% threshold, 1 star up to 0.25, 2 up to 0.50, 3 up to 0.75 and 4   *)
(* above, every threshold belonging to the lower level, where the 5%       *)
(* threshold is the float 0.05f (just above 0.05) in C++ and the double    *)
(* 0.05 in JavaScript; in both the number of stars does not decrease with  *)
(* the gain; the two return the same string for the same gain except on    *)
(* gains in (0.05, 0.05f], where C++ shows 0 stars and JavaScript 1.       *)
C13_GainMeter ==
  Shown =>
    /\ Stars(meter.cpp) = MeterLevel(meter.gain, F32(13421773))
    /\ Stars(meter.js) = MeterLevel(meter.gain, R(1, 20))
    /\ \A h \in MeterGains :
         RLe(h, meter.gain) =>
           /\ Stars(GainMeterString(h)) <= Stars(meter.cpp)
           /\ Stars(gainMeterString(h)) <= Stars(meter.js)
    /\ ~BetweenLiterals(meter.gain) => meter.cpp = meter.js
    /\ BetweenLiterals(meter.gain) => meter.cpp = "    " /\ meter.js = "*   "

C13_Witness ==
  /\ Shown
  /\ meter.gain = R(1, 4)
  /\ meter.cpp = "*   "
  /\ meter.js = "*   "

----------------------------------------------------------------------------
(* C14: in every reachable state 0 <= hang_cnt_ <= H; a block with echo    *)
(* detected sets the counter to exactly H whatever it was; a block without *)
(* detection decrements it by one when it is positive and leaves it at 0   *)
(* otherwise; suppression is Active on a block iff echo was detected on it *)
(* or the counter was positive before the block.                           *)
C14_HangoverCounter ==
  /\ H >= 0
  /\ hang_cnt \in 0 .. H
  /\ Called =>
       /\ call.res.echo_detected => hang_cnt = H
       /\ (~call.res.echo_detected /\ call.prev.hang_cnt > 0) =>
             hang_cnt = call.prev.hang_cnt - 1
       /\ (~call.res.echo_detected /\ call.prev.hang_cnt = 0) => hang_cnt = 0
       /\ Active <=> (call.res.echo_detected \/ call.prev.hang_cnt > 0)
       /\ Active \/ Released

(* a detection while the hangover of an earlier one is still counting *)
C14_Witness ==
  /\ Called
  /\ call.res.echo_detected
  /\ call.prev.hang_cnt > 0
  /\ call.prev.hang_cnt < H
  /\ hang_cnt = H

----------------------------------------------------------------------------
(* C15: on every block the target gain is the muted linear gain if         *)
(* suppression is Active and 1.0 otherwise; the coefficient is the attack  *)
(* coefficient when target < current gain and the release coefficient      *)
(* otherwise, target = current gain included; the new gain is              *)
(* (1 - coeff) x gain + coeff x target, lies between the old gain and the  *)
(* target, and equals the target when coeff = 1.                           *)
C15_SmootherStep ==
  Called =>
    /\ call.res.target_gain = (IF call.res.ret THEN atten_linear ELSE ROne)
    /\ call.res.coeff = (IF RLt(call.res.target_gain, call.prev.gate_gain)
                         THEN config.attack ELSE config.release)
    /\ call.res.target_gain = call.prev.gate_gain =>
         call.res.coeff = config.release /\ gate_gain = call.prev.gate_gain
    /\ gate_gain = RAdd(RMul(RSub(ROne, call.res.coeff), call.prev.gate_gain),
                        RMul(call.res.coeff, call.res.target_gain))
    /\ \/ /\ RLe(call.prev.gate_gain, gate_gain)
          /\ RLe(gate_gain, call.res.target_gain)
       \/ /\ RLe(call.res.target_gain, gate_gain)
          /\ RLe(gate_gain, call.prev.gate_gain)
    /\ call.res.coeff = ROne => gate_gain = call.res.target_gain

(* a block that reaches a lower target in one step, after a block whose    *)
(* target was the gain it already had                                      *)
C15_Witness ==
  /\ Called
  /\ call.res.coeff = ROne
  /\ RLt(call.res.target_gain, call.prev.gate_gain)
  /\ gate_gain = atten_linear
  /\ config.release # config.attack
  /\ ncalls >= 2

----------------------------------------------------------------------------
(* C16: for every block n, every candidate lag L and every i, the history  *)
(* sample compared with microphone sample i is the far-end sample at       *)
(* stream position n x blockLength + i - L, zero before the start of the   *)
(* stream: the push comes before the search (lag 0 reads the block just    *)
(* pushed), and this holds at every cursor position, after a wrap too,     *)
(* blockLength + maxLag not exceeding the capacity.                        *)
C16_WindowAlignment ==
  /\ Block + MaxLag <= HistLen
  /\ Called =>
       /\ \A L \in CandLags : \A i \in BlockIdx :
            LagWindow(far_hist, hist_pos, L)[i] =
              RefSample((ncalls - 1) * Block + i - L)
       /\ LagWindow(far_hist, hist_pos, 0) = call.far
       /\ call.res.best_score =
            LagScore(config, RefWindow(call.res.best_lag), call.mic)

(* the cursor has wrapped, the window of the largest lag starts beyond     *)
(* the start of the array and holds a non-zero sample                      *)
C16_Witness ==
  /\ Called
  /\ ncalls * Block > HistLen
  /\ hist_pos - (Block + MaxLag) < 0
  /\ MaxLag \in CandLags
  /\ \E i \in BlockIdx : LagWindow(far_hist, hist_pos, MaxLag)[i] # 0
  /\ LagWindow(far_hist, hist_pos, MaxLag) = RefWindow(MaxLag)

----------------------------------------------------------------------------
(* C17: every index produced by wrap_index during process_block, for every *)
(* cursor position in [0, capacity), every lag in [0, maxLag] and every    *)
(* sample index in [0, blockLength), lies in [0, capacity) and equals the  *)
(* mathematical (cursor + offset) mod capacity, also when cursor + offset  *)
(* is negative; the write cursor is in [0, capacity) in every state.       *)
C17_IndexSafety ==
  /\ hist_pos \in HistIdx
  /\ \A pos \in HistIdx : \A L \in 0 .. MaxLag : \A i \in BlockIdx :
       /\ wrap_index(pos, -(Block + L) + i) \in HistIdx
       /\ wrap_index(pos, -(Block + L) + i) = (pos - (Block + L) + i) % HistLen
  /\ DOMAIN far_hist = HistIdx

(* a call whose reads start before the beginning of the array *)
C17_Witness ==
  /\ Called
  /\ hist_pos - (Block + MaxLag) < 0
  /\ CRem(hist_pos - (Block + MaxLag), HistLen) < 0
  /\ wrap_index(hist_pos, -(Block + MaxLag)) = hist_pos - (Block + MaxLag) + HistLen
  /\ ncalls * Block > HistLen

----------------------------------------------------------------------------
(* score of the window the history holds for a lag, against the            *)
(* microphone block of the last call                                       *)
HistScore(l) == LagScore(config, LagWindow(far_hist, hist_pos, l), call.mic)

(* C18: on every block the search evaluates exactly the lags 0, lagStep,   *)
(* 2 x lagStep, ... that are <= maxLag, in increasing order, maxLag        *)
(* included when it is a multiple of lagStep; every lag reported to the    *)
(* caller is the sentinel -1 or a multiple of lagStep in [0, maxLag].      *)
C18_CandidateLags ==
  /\ {LagsVisited(0)[k] : k \in DOMAIN LagsVisited(0)} =
       {l \in 0 .. MaxLag : l % LagStep = 0}
  /\ \A k \in DOMAIN LagsVisited(0) :
       k > 1 => LagsVisited(0)[k] = LagsVisited(0)[k - 1] + LagStep
  /\ LagsVisited(0)[1] = 0
  /\ MaxLag % LagStep = 0 => LagsVisited(0)[Len(LagsVisited(0))] = MaxLag
  /\ Called =>
       /\ \/ call.res.estimated_lag_samples = -1
          \/ /\ call.res.estimated_lag_samples \in 0 .. MaxLag
             /\ call.res.estimated_lag_samples % LagStep = 0
       /\ call.res.best_lag \in 0 .. MaxLag
       /\ call.res.best_lag % LagStep = 0
       /\ call.res.best_score = HistScore(call.res.best_lag)
       /\ \A l \in 0 .. MaxLag :
            l % LagStep = 0 => ~ScoreGt(HistScore(l), call.res.best_score)

(* the largest lag is reported, while a lag that is no multiple of the     *)
(* step has a window too                                                   *)
C18_Witness ==
  /\ Called
  /\ LagStep > 1
  /\ MaxLag % LagStep = 0
  /\ call.res.estimated_lag_samples = MaxLag
  /\ \E l \in 0 .. MaxLag : l % LagStep # 0

----------------------------------------------------------------------------
(* the window the history holds for a lag after the last call *)
HistWindow(l) == LagWindow(far_hist, hist_pos, l)

(* C19: for every pair of input blocks, all-zero, constant and             *)
(* single-impulse blocks included, and every candidate lag, each divisor   *)
(* used in process_block (the AMDF denominator micAbs + farAbs, the NCC    *)
(* denominator sqrt(farPower x micPower)) is at least the positive         *)
(* epsilon, and the call completes returning a gain and a lag.             *)
C19_FlooredDenominators ==
  /\ RLt(RZero, kEps)
  /\ Called =>
       /\ RLe(kEps, call.res.mic_pow)
       /\ RLe(kEps, call.res.best_far_pow)
       /\ \A l \in CandLags :
            /\ RLe(kEps, FarPow(HistWindow(l)))
            /\ config.lag_metric = "kAMDF" =>
                 /\ RLe(kEps, MicAbs(call.mic))
                 /\ RLe(kEps, AmdfDenom(HistWindow(l), call.mic))
            /\ config.lag_metric = "kNCC" =>
                 RLe(RMul(kEps, kEps), NccRadicand(HistWindow(l), call.mic))
       /\ ~call.res.best_score.ninf
       /\ RLe(RMul(kEps, kEps), call.res.best_score.rad)
       /\ call.res.applied_gain.d > 0
       /\ call.res.estimated_lag_samples \in -1 .. MaxLag

(* silence on both inputs: every sum is zero and every floor is in use *)
C19_Witness ==
  /\ Called
  /\ config.lag_metric = "kAMDF"
  /\ IsZero(call.mic)
  /\ \A l \in CandLags : IsZero(HistWindow(l))
  /\ \A l \in CandLags : AmdfDenom(HistWindow(l), call.mic) = RAdd(kEps, RZero)
  /\ call.res.mic_pow = kEps
  /\ call.res.best_far_pow = kEps

----------------------------------------------------------------------------
(* The capture delay line of echoback: C++ (State::delay_line, rec_dev)    *)
(* and JavaScript (captureDelayLine with its start index, recQ).  Samples  *)
(* are 16-bit integers, which samples[i] | 0 leaves as they are.           *)

(* the sample released one step early *)
enqueue_capture_sample_Early(st, sample) ==
  IF Len(st.delay_line) + 1 < st.delay_target_samples
  THEN [st EXCEPT !.delay_line = Append(@, sample), !.rec_dev = Append(@, 0)]
  ELSE [st EXCEPT !.delay_line = Tail(Append(@, sample)),
                  !.rec_dev = Append(@, Head(Append(st.delay_line, sample)))]

(* enqueue_capture_sample(State& s, int16_t sample) *)
enqueue_capture_sample(st, sample) ==
  IF Len(st.delay_line) + 1 <= st.delay_target_samples
  THEN [st EXCEPT !.delay_line = Append(@, sample), !.rec_dev = Append(@, 0)]
  ELSE [st EXCEPT !.delay_line = Tail(Append(@, sample)),
                  !.rec_dev = Append(@, Head(Append(st.delay_line, sample)))]

(* step 1 of pa_callback: for (i = 0; i < n; ++i) enqueue_capture_sample *)
RECURSIVE EnqueueCapture(_, _, _)
EnqueueCapture(st, in, i) ==
  IF i > Len(in) THEN st
  ELSE EnqueueCapture(enqueue_capture_sample(st, in[i]), in, i + 1)

(* trimCaptureQueue() *)
trimCaptureQueue(js) ==
  IF /\ js.captureDelayStart > TrimLimit
     /\ 2 * js.captureDelayStart > Len(js.captureDelayLine)
  THEN [js EXCEPT !.captureDelayLine =
                     SubSeq(@, js.captureDelayStart + 1, Len(@)),
                  !.captureDelayStart = 0]
  ELSE js

(* the loop of enqueueCaptureSamples *)
RECURSIVE EnqueueLoop(_, _, _)
EnqueueLoop(js, samples, i) ==
  IF i > Len(samples) THEN js
  ELSE EnqueueLoop(
         IF Len(js.captureDelayLine) + 1 - js.captureDelayStart > js.inputDelaySamples
         THEN trimCaptureQueue(
                [js EXCEPT !.captureDelayLine = Append(@, samples[i]),
                           !.recQ = Append(@, Append(js.captureDelayLine, samples[i])
                                                [js.captureDelayStart + 1]),
                           !.captureDelayStart = @ + 1])
         ELSE [js EXCEPT !.captureDelayLine = Append(@, samples[i]),
                         !.recQ = Append(@, 0)],
         samples, i + 1)

(* enqueueCaptureSamples(samples) *)
enqueueCaptureSamples(js, samples) ==
  IF js.inputDelaySamples = 0 THEN [js EXCEPT !.recQ = @ \o samples]
  ELSE EnqueueLoop(js, samples, 1)

CaptureSamples == {-1, 0, 2}
CaptureChunks == UNION {[1 .. n -> CaptureSamples] : n \in 1 .. MaxChunk}

(* one audio callback delivers a chunk of captured samples to both *)
CaptureChunk ==
  /\ \E in \in CaptureChunks :
       /\ Len(captured) + Len(in) <= MaxCaptured
       /\ \E st \in {EnqueueCapture([delay_line |-> delay_line, rec_dev |-> rec_dev,
                                     delay_target_samples |-> delay_target_samples],
                                    in, 1)},
             js \in {enqueueCaptureSamples(
                       [captureDelayLine |-> captureDelayLine,
                        captureDelayStart |-> captureDelayStart,
                        recQ |-> recQ,
                        inputDelaySamples |-> delay_target_samples], in)} :
            /\ delay_line' = st.delay_line
            /\ rec_dev' = st.rec_dev
            /\ captureDelayLine' = js.captureDelayLine
            /\ captureDelayStart' = js.captureDelayStart
            /\ recQ' = js.recQ
       /\ captured' = captured \o in
  /\ UNCHANGED core
  /\ UNCHANGED <<meter, delay_target_samples, scored, port, pcm, echo, jsEcho, tool>>

(* --input-delay-ms gives the delay target before the stream starts *)
InitCapture ==
  /\ InitCore({CfgAmdf})
  /\ meter = NoMeter
  /\ delay_target_samples \in 0 .. MaxDelay
  /\ InitQueues
  /\ scored = NoScore
  /\ port = NoPort
  /\ pcm = NoPcm
  /\ echo = NoEcho
  /\ jsEcho = NoJsEcho
  /\ tool = NoTool

NextCapture == CaptureChunk
SpecCapture == InitCapture /\ [][NextCapture]_vars

(* the samples of the JavaScript delay line that are not yet released *)
JsPending == SubSeq(captureDelayLine, captureDelayStart + 1, Len(captureDelayLine))

(* a sequence without its first n elements *)
Drop(q, n) == SubSeq(q, n + 1, Len(q))

(* C20: with delay target D, the k-th sample appended to the record queue  *)
(* is 0 for k <= D and the (k - D)-th captured sample for k > D; one       *)
(* sample is appended per captured sample, in order, none dropped or       *)
(* duplicated; the delay line never holds more than D samples after a      *)
(* step; with D = 0 the stream passes through unchanged.  The same for     *)
(* the JavaScript queue, whose delay line is the part of the array from    *)
(* its start index on.                                                     *)
C20_CaptureDelay ==
  /\ Len(rec_dev) = Len(captured)
  /\ \A k \in 1 .. Len(rec_dev) :
       rec_dev[k] = (IF k <= delay_target_samples THEN 0
                     ELSE captured[k - delay_target_samples])
  /\ Len(delay_line) <= delay_target_samples
  /\ Drop(rec_dev, delay_target_samples) \o delay_line = captured
  /\ delay_target_samples = 0 => rec_dev = captured /\ delay_line = <<>>
  /\ recQ = rec_dev
  /\ delay_target_samples > 0 => JsPending = delay_line
  /\ delay_target_samples = 0 => captureDelayLine = <<>>
  /\ captureDelayStart <= Len(captureDelayLine)

(* a delayed stream after the zeros have gone out and the JavaScript array *)
(* has been trimmed                                                        *)
C20_Witness ==
  /\ delay_target_samples = MaxDelay
  /\ Len(captured) > delay_target_samples + 1
  /\ \A k \in 1 .. Len(captured) : captured[k] # 0
  /\ rec_dev[delay_target_samples + 1] = captured[1]
  /\ rec_dev[Len(rec_dev)] # captured[Len(captured)]
  /\ Len(delay_line) = delay_target_samples
  /\ Len(captureDelayLine) < Len(captured)

----------------------------------------------------------------------------
(* C25: the lag output of a block is >= 0 exactly when echo was detected   *)
(* on that block, and then the hangover counter equals H after the call;   *)
(* a block suppressed by hangover alone returns true, moves the gain       *)
(* toward the muted target and reports the sentinel -1; a block that       *)
(* returns false reports -1.                                               *)
HangoverOnly == Called /\ ~call.res.echo_detected /\ call.prev.hang_cnt > 0

C25_LagSentinel ==
  Called =>
    /\ (call.res.estimated_lag_samples >= 0) <=> call.res.echo_detected
    /\ call.res.echo_detected =>
         /\ hang_cnt = H
         /\ call.res.ret
         /\ call.res.estimated_lag_samples = call.res.best_lag
         /\ call.res.estimated_lag_samples \in CandLags
    /\ HangoverOnly =>
         /\ call.res.ret
         /\ call.res.target_gain = atten_linear
         /\ call.res.estimated_lag_samples = -1
         /\ RLe(Dist(gate_gain, atten_linear), Dist(call.prev.gate_gain, atten_linear))
         /\ RLt(atten_linear, call.prev.gate_gain) => RLt(gate_gain, call.prev.gate_gain)
    /\ ~call.res.ret => call.res.estimated_lag_samples = -1

(* a block muted by hangover alone, its gain still falling *)
C25_Witness ==
  /\ HangoverOnly
  /\ call.res.ret
  /\ call.res.estimated_lag_samples = -1
  /\ RLt(gate_gain, call.prev.gate_gain)
  /\ ~IsZero(call.mic)

----------------------------------------------------------------------------
(* The AMDF score of one lag, for every window and microphone block *)
ScoreWindow ==
  /\ ~scored.done
  /\ scored' = AmdfScoreF(scored.w, scored.mic)
  /\ UNCHANGED core
  /\ UNCHANGED <<meter, capture, port, pcm, echo, jsEcho, tool>>

InitScore ==
  /\ InitCore({CfgAmdf})
  /\ meter = NoMeter
  /\ delay_target_samples = 0
  /\ InitQueues
  /\ \E w \in FloatBlocks, mic \in FloatBlocks : scored = Unscored(w, mic)
  /\ port = NoPort
  /\ pcm = NoPcm
  /\ echo = NoEcho
  /\ jsEcho = NoJsEcho
  /\ tool = NoTool
NextScore == ScoreWindow
SpecScore == InitScore /\ [][NextScore]_vars

(* sums and the score in real arithmetic *)
RECURSIVE RSum(_, _)
RSum(f, n) == IF n = 0 THEN RZero ELSE RAdd(RSum(f, n - 1), f[n - 1])

RealAccum == RSum([i \in BlockIdx |-> RAbs(RSub(scored.w[i], scored.mic[i]))], Block)
RealDenom ==
  RMax(RAdd(RMax(RSum([i \in BlockIdx |-> RAbs(scored.mic[i])], Block), kEpsF),
            RSum([i \in BlockIdx |-> RAbs(scored.w[i])], Block)), kEpsF)
RealScore == RSub(ROne, RDiv(RealAccum, RealDenom))

(* C26 as stated: the score computed by the lag search is within [0, 1],   *)
(* so that the best score of a block is never negative.                    *)
C26_ScoreRangeAsStated ==
  scored.done =>
    /\ RLe(RZero, scored.raw)
    /\ RLe(scored.raw, ROne)

(* C26: the absolute-difference score is within [0, 1] in real arithmetic; *)
(* the score the lag search computes in floats is at most 1 and above -1,  *)
(* so the lower clamp is never taken, but rounding of the sums can leave   *)
(* it below 0; it is exactly 1 when window and microphone block are        *)
(* identical.                                                              *)
C26_ScoreRange ==
  scored.done =>
    /\ RLe(RZero, RealScore) /\ RLe(RealScore, ROne)
    /\ RLt(RInt(-1), scored.raw) /\ RLe(scored.raw, ROne)
    /\ scored.score = scored.raw
    /\ scored.w = scored.mic => scored.raw = ROne /\ RealScore = ROne
    /\ RLt(scored.raw, RZero) => RLt(scored.denom, scored.accum)

(* a window opposite in sign to the microphone block: the real score is 0, *)
(* the float sums differ and the computed score is negative                *)
C26_Witness ==
  /\ scored.done
  /\ RealScore = RZero
  /\ RLt(scored.raw, RZero)
  /\ RLt(scored.denom, scored.accum)
  /\ \A i \in BlockIdx : scored.w[i].n < 0 /\ scored.mic[i].n > 0

----------------------------------------------------------------------------
(* set_config between blocks *)

(* no attenuation at all and a longer hangover *)
CfgOpen == [CfgAmdf EXCEPT !.atten_db = 0, !.hangover_blocks = Hangover + 2]
NewConfigs == {CfgAmdf, CfgNcc, CfgOpen}

(* s.suppressor.set_config(sup_config) *)
SetConfig ==
  /\ ncalls <= MaxBlocks
  /\ \E c \in NewConfigs :
       /\ c # config
       /\ Install(set_config(Obj, c))
  /\ op' = "set_config"
  /\ call' = [call EXCEPT !.prev = Obj]
  /\ UNCHANGED <<stream, ncalls, nresets, since, quiet, wide, fresh>>
  /\ UNCHANGED front

NextConfig == ProcessBlock \/ SetConfig
SpecConfig == Init /\ [][NextConfig]_vars

(* C29: set_config replaces the configuration and the muted linear gain    *)
(* derived from it, and nothing else: the current gain, the hangover       *)
(* counter, the history and the write cursor are as before the call.       *)
C29_SetConfigFrame ==
  op = "set_config" =>
    /\ config # call.prev.config
    /\ atten_linear = AttenLinear(config)
    /\ gate_gain = call.prev.gate_gain
    /\ hang_cnt = call.prev.hang_cnt
    /\ far_hist = call.prev.far_hist
    /\ hist_pos = call.prev.hist_pos

(* a hangover counting down that keeps a count the new configuration would *)
(* not have loaded, and a gain left below the new floor                    *)
C29_Witness ==
  /\ op = "set_config"
  /\ hang_cnt > 0
  /\ hang_cnt < call.prev.config.hangover_blocks
  /\ config.hangover_blocks # call.prev.config.hangover_blocks
  /\ RLt(gate_gain, atten_linear)
  /\ atten_linear # call.prev.atten_linear
  /\ hist_pos > 0

----------------------------------------------------------------------------
(* The JavaScript port beside the fixed-constant C++ suppressor *)

(* a block of floats from its first sample and the value of the others *)
ShapeF(a, b) == [i \in BlockIdx |-> IF i = 0 THEN a ELSE b]
PortSamples == {R(k, Pow2(MantBits)) : k \in {-7, 0, 7}}
PortFarBlocks == {ShapeF(a, b) : a, b \in PortSamples}
PortNearBlocks == {ShapeF(a, b) : a, b \in PortSamples}

PortBlock ==
  /\ port.n < MaxPortBlocks
  /\ \E far \in PortFarBlocks, near \in PortNearBlocks :
       \E cpp \in {FixedProcessBlock("float", port.cpp, far, near)},
          js \in {processFloat("double", port.js, far, near)},
          cppReal \in {FixedProcessBlock("real", port.cppReal, far, near)},
          jsReal \in {processFloat("real", port.jsReal, far, near)} :
         port' = PortStep(cpp, js, cppReal, jsReal, port.n, port.agreed)
  /\ UNCHANGED core
  /\ UNCHANGED <<meter, capture, scored, pcm, echo, jsEcho, tool>>

InitPort == InitWith({CfgAmdf})
NextPort == PortBlock
SpecPort == InitPort /\ [][NextPort]_vars

(* write cursor, hangover counter, echo decision, winning lag, reported lag *)
SameStates(c, j) ==
  /\ j.histPos = c.hist_pos
  /\ j.hangCnt = c.hang_cnt
  /\ j.echoDetected = c.echo_detected
  /\ j.bestLag = c.best_lag
  /\ j.lag = c.estimated_lag_samples

(* C28 as stated: on every block processFloat and the fixed-constant       *)
(* process_block are in the same state (write cursor, hangover counter,    *)
(* echo decision, winning lag) and report the same lag.                    *)
C28_SameStatesAsStated == SameStates(port.cpp, port.js)

(* C28: the port takes the same steps: computed in real arithmetic,        *)
(* processFloat and process_block go through the same states and report    *)
(* the same lag and gain on every block; as they run (double against       *)
(* float) the write cursor and the history always agree, and the hangover  *)
(* counter and the suppress flag agree as long as the echo decisions of    *)
(* all blocks so far agreed, which rounding at a threshold can prevent.    *)
C28_PortEquivalence ==
  /\ SameStates(port.cppReal, port.jsReal)
  /\ port.jsReal.gateGain = port.cppReal.gate_gain
  /\ port.jsReal.farHist = port.cppReal.far_hist
  /\ port.jsReal.suppress = port.cppReal.ret
  /\ port.js.histPos = port.cpp.hist_pos
  /\ port.js.farHist = port.cpp.far_hist
  /\ port.agreed =>
       /\ port.js.hangCnt = port.cpp.hang_cnt
       /\ port.js.suppress = port.cpp.ret

(* both detect the echo in real arithmetic with a winning lag > 0, and the *)
(* float and double runs have parted: different decision, hangover, gain   *)
C28_Witness ==
  /\ port.n = MaxPortBlocks
  /\ port.cppReal.echo_detected /\ port.jsReal.echoDetected
  /\ port.cppReal.best_lag > 0
  /\ ~port.agreed
  /\ port.js.hangCnt # port.cpp.hang_cnt
  /\ port.js.gateGain # port.cpp.gate_gain
  /\ port.js.histPos = Block * MaxPortBlocks

----------------------------------------------------------------------------
(* One sample through the gate and back to 16 bits *)
Encode16 ==
  /\ ~pcm.done
  /\ pcm' = [pcm EXCEPT !.cpp = EncodeCpp(pcm.s, pcm.gain),
                        !.js = EncodeJs(pcm.s, pcm.gain),
                        !.done = TRUE]
  /\ UNCHANGED core
  /\ UNCHANGED <<meter, capture, scored, port, echo, jsEcho, tool>>

InitPcm ==
  /\ InitCore({CfgAmdf})
  /\ meter = NoMeter
  /\ delay_target_samples = 0
  /\ InitQueues
  /\ scored = NoScore
  /\ port = NoPort
  /\ \E sample \in PcmSamples, gain \in PcmGains : pcm = Unencoded(sample, gain)
  /\ echo = NoEcho
  /\ jsEcho = NoJsEcho
  /\ tool = NoTool

NextPcm == Encode16
SpecPcm == InitPcm /\ [][NextPcm]_vars

Sign(x) == IF x > 0 THEN 1 ELSE IF x < 0 THEN -1 ELSE 0

(* the value that is rounded: s / 32768 * gain * 32767 *)
Exact16 == Scale16(RMul(ToFloat(pcm.s), pcm.gain))

NeverAmplified(o) ==
  /\ -32767 <= o /\ o <= 32767
  /\ o = 0 \/ Sign(o) = Sign(pcm.s)
  /\ Abs(o) <= Abs(pcm.s)

(* C27: for every 16-bit sample s and every gain in [0, 1] the re-encoded  *)
(* sample round(clamp(s / 32768 * gain, -1, 1) * 32767) lies in            *)
(* [-32767, 32767], has the sign of s or is 0, and its magnitude is at     *)
(* most |s|; it is the rounded value itself, so the cast to 16 bits did    *)
(* not overflow, in the C++ front ends and in processInt16 alike.          *)
C27_NeverAmplifies ==
  pcm.done =>
    /\ NeverAmplified(pcm.cpp)
    /\ NeverAmplified(pcm.js)
    /\ pcm.cpp = Lrintf(Exact16)
    /\ pcm.js = MathRound(Exact16)
    /\ Abs(pcm.cpp - pcm.js) <= 1

(* the most negative sample at full gain *)
C27_Witness ==
  /\ pcm.done
  /\ pcm.s = -32768
  /\ pcm.gain = ROne
  /\ pcm.cpp = -32767
  /\ pcm.js = -32767

----------------------------------------------------------------------------
(* echoback (C++): pa_callback and process_available_blocks.  The record S *)
(* is State: the fields kept in the variables delay_target_samples,        *)
(* delay_line and rec_dev, and the fields kept in the variable echo.       *)
(* Samples are integers of -PcmHalf .. PcmHalf - 1, PcmHalf standing for   *)
(* 32768.  blocks and emitted are not part of State: blocks records what   *)
(* each processed block was made of, emitted counts the samples the        *)
(* callback has taken from out_dev, underrun the zeros it wrote instead.   *)

(* static_cast<float>(x) * kInvScale *)
EchoToFloat(blk) == [i \in BlockIdx |-> R(blk[i], PcmHalf)]

(* std::lrintf(std::max(-1.0f, std::min(1.0f, x)) * kScale), cast to int16_t *)
EchoEncode(x) ==
  ((Lrintf(RMul(ClampUnit(x), RInt(PcmHalf - 1))) + PcmHalf) % (2 * PcmHalf)) - PcmHalf

(* Math.round(Math.max(-1, Math.min(1, x)) * 32767), stored in an Int16Array *)
EchoEncodeJs(x) ==
  ((MathRound(RMul(ClampUnit(x), RInt(PcmHalf - 1))) + PcmHalf) % (2 * PcmHalf)) - PcmHalf

(* the first Block samples of a queue, as a block *)
TakeBlock(q) == [i \in BlockIdx |-> q[i + 1]]

(* the loopback delay one sample short *)
RECURSIVE apply_loopback_delay_Short(_, _, _, _)
apply_loopback_delay_Short(line, target, block, i) ==
  IF target = 0 \/ i = Block THEN [far_delay_line |-> line, block |-> block]
  ELSE IF Len(line) + 1 >= target
       THEN apply_loopback_delay_Short(Tail(Append(line, block[i])), target,
                                       [block EXCEPT ![i] = Head(Append(line, block[i]))], i + 1)
       ELSE apply_loopback_delay_Short(Append(line, block[i]), target,
                                       [block EXCEPT ![i] = 0], i + 1)

(* apply_loopback_delay(State& s, int16_t* block), from sample i on *)
RECURSIVE apply_loopback_delay(_, _, _, _)
apply_loopback_delay(line, target, block, i) ==
  IF target = 0 \/ i = Block THEN [far_delay_line |-> line, block |-> block]
  ELSE IF Len(line) + 1 > target
       THEN apply_loopback_delay(Tail(Append(line, block[i])), target,
                                 [block EXCEPT ![i] = Head(Append(line, block[i]))], i + 1)
       ELSE apply_loopback_delay(Append(line, block[i]), target,
                                 [block EXCEPT ![i] = 0], i + 1)

(* if (estimated_lag >= 0) { lag_history, lag_sum, lag_last, lag_stats_ready } *)
LagStats(S, estimated_lag) ==
  IF estimated_lag < 0 THEN S
  ELSE [S EXCEPT
          !.lag_history = IF Len(@) + 1 > LagHistoryLimit THEN Tail(Append(@, estimated_lag))
                          ELSE Append(@, estimated_lag),
          !.lag_sum = IF Len(S.lag_history) + 1 > LagHistoryLimit
                      THEN @ + estimated_lag - Head(Append(S.lag_history, estimated_lag))
                      ELSE @ + estimated_lag,
          !.lag_last = estimated_lag,
          !.lag_stats_ready = TRUE]

(* the end of one iteration: ++block_counter, push to jitter and out_dev *)
FinishBlock(S, near_blk, far_blk, delayed, out_blk, suppressor, estimated_lag, called) ==
  [LagStats(S, estimated_lag) EXCEPT
     !.far_delay_line = delayed.far_delay_line,
     !.suppressor = suppressor,
     !.block_counter = @ + 1,
     !.jitter = @ \o BlockSeq(out_blk),
     !.out_dev = @ \o BlockSeq(delayed.block),
     !.blocks = Append(@, [near |-> near_blk, far |-> far_blk, speaker |-> delayed.block,
                           out |-> out_blk, called |-> called,
                           rec_len |-> Len(S.rec_dev),
                           jitter_len |-> Len(S.jitter) + Block,
                           out_len |-> Len(S.out_dev) + Block,
                           counter |-> S.block_counter + 1])]

(* the suppressor branch: conversion, process_block, re-encoding *)
SuppressBlock(S, near_blk, far_blk, delayed, r) ==
  FinishBlock(S, near_blk, far_blk, delayed,
              [i \in BlockIdx |-> EchoEncode(RMul(R(near_blk[i], PcmHalf), r.gate_gain))],
              r, r.estimated_lag_samples, TRUE)

(* the suppressor run in passthrough mode too *)
GateBlock_Always(S, near_blk, far_blk, delayed) ==
  SuppressBlock(S, near_blk, far_blk, delayed,
                FixedProcessBlock("real", S.suppressor, EchoToFloat(far_blk),
                                  EchoToFloat(near_blk)))

(* out_blk by memcpy in passthrough mode, by the suppressor otherwise; *)
(* estimated_lag starts at 0 and only process_block writes it          *)
GateBlock(S, near_blk, far_blk, delayed) ==
  IF S.passthrough
  THEN FinishBlock(S, near_blk, far_blk, delayed, near_blk, S.suppressor, 0, FALSE)
  ELSE SuppressBlock(S, near_blk, far_blk, delayed,
                     FixedProcessBlock("real", S.suppressor, EchoToFloat(far_blk),
                                       EchoToFloat(near_blk)))

(* the far block taken, the speaker block delayed *)
FarBlock(S, near_blk, far_blk) ==
  GateBlock(S, near_blk, far_blk,
            apply_loopback_delay(S.far_delay_line, S.loopback_delay_target_samples, far_blk, 0))

(* the far block all zeros although a block is queued *)
PopFar_Zero(S, near_blk) == FarBlock(S, near_blk, ZeroBlock)

(* 2) pop far block: a queued block if there is one, zeros otherwise *)
PopFar(S, near_blk) ==
  IF Len(S.jitter) >= Block
  THEN FarBlock([S EXCEPT !.jitter = Drop(@, Block)], near_blk, TakeBlock(S.jitter))
  ELSE FarBlock(S, near_blk, ZeroBlock)

(* one iteration of the loop, from 1) pop near block *)
OneBlock(S) == PopFar([S EXCEPT !.rec_dev = Drop(@, Block)], TakeBlock(S.rec_dev))

(* at most one block per callback *)
process_available_blocks_Once(S) ==
  IF Len(S.rec_dev) >= Block THEN OneBlock(S) ELSE S

(* while (s.rec_dev.size() >= kBlockLen) *)
RECURSIVE process_available_blocks(_)
process_available_blocks(S) ==
  IF Len(S.rec_dev) >= Block THEN process_available_blocks(OneBlock(S)) ELSE S

(* 3) emit output: n samples from out_dev, zeros when it is empty *)
EmitOutput(S, n) ==
  IF Len(S.out_dev) >= n
  THEN [S EXCEPT !.out_dev = Drop(@, n), !.emitted = @ + n,
                 !.out = SubSeq(S.out_dev, 1, n)]
  ELSE [S EXCEPT !.out_dev = <<>>, !.emitted = @ + Len(S.out_dev),
                 !.underrun = @ + (n - Len(S.out_dev)),
                 !.out = S.out_dev \o [k \in 1 .. (n - Len(S.out_dev)) |-> 0]]

(* State as one record *)
StateOf(e) ==
  [f \in DOMAIN e \cup {"delay_target_samples", "delay_line", "rec_dev"} |->
     IF f = "delay_target_samples" THEN delay_target_samples
     ELSE IF f = "delay_line" THEN delay_line
     ELSE IF f = "rec_dev" THEN rec_dev
     ELSE e[f]]

(* the fields of State that echo keeps *)
EchoOf(S) == [f \in DOMAIN echo |-> S[f]]

(* pa_callback(inputBuffer, outputBuffer, blockSize) on State S *)
Callback(S, in) ==
  [EmitOutput(process_available_blocks(EnqueueCapture(S, in, 1)), Len(in)) EXCEPT
     !.callbacks = @ + 1, !.frames = @ \cup {Len(in)}]

EchoSamples == {-3, 2}
EchoFrames == UNION {[1 .. n -> EchoSamples] : n \in 1 .. MaxFrames}

pa_callback ==
  /\ echo.running
  /\ \E in \in EchoFrames :
       /\ Len(captured) + Len(in) <= MaxEchoSamples
       /\ \E S \in {Callback(StateOf(echo), in)} :
            /\ delay_line' = S.delay_line
            /\ rec_dev' = S.rec_dev
            /\ echo' = EchoOf(S)
       /\ captured' = captured \o in
  /\ UNCHANGED <<delay_target_samples, captureDelayLine, captureDelayStart, recQ>>
  /\ UNCHANGED core
  /\ UNCHANGED <<meter, scored, port, pcm, jsEcho, tool>>

----------------------------------------------------------------------------
(* echoback.js: the timer callback and processBlocks.  The record J holds  *)
(* the top-level variables of the script; blocks and played are not among  *)
(* them: blocks records what each processed block was made of, played the  *)
(* samples handed to PortAudio.pushSamplesForPlay.                         *)

(* trimLoopbackQueue() *)
trimLoopbackQueue(J) ==
  IF /\ J.loopbackDelayStart > TrimLimit
     /\ 2 * J.loopbackDelayStart > Len(J.loopbackDelayLine)
  THEN [J EXCEPT !.loopbackDelayLine = SubSeq(@, J.loopbackDelayStart + 1, Len(@)),
                 !.loopbackDelayStart = 0]
  ELSE J

(* applyLoopbackDelayBlock(block), from sample i on; the block is in J.delayed *)
RECURSIVE applyLoopbackDelayBlock(_, _, _)
applyLoopbackDelayBlock(J, block, i) ==
  IF J.loopbackDelaySamples <= 0 THEN [J EXCEPT !.delayed = block]
  ELSE IF i = Block THEN J
  ELSE applyLoopbackDelayBlock(
         IF Len(J.loopbackDelayLine) + 1 - J.loopbackDelayStart > J.loopbackDelaySamples
         THEN trimLoopbackQueue(
                [J EXCEPT !.loopbackDelayLine = Append(@, block[i]),
                          !.delayed[i] = Append(J.loopbackDelayLine, block[i])
                                           [J.loopbackDelayStart + 1],
                          !.loopbackDelayStart = @ + 1])
         ELSE [J EXCEPT !.loopbackDelayLine = Append(@, block[i]), !.delayed[i] = 0],
         block, i + 1)

(* updateLagStats(lagSamples) *)
updateLagStats(J, lagSamples) ==
  IF lagSamples < 0 THEN J
  ELSE [J EXCEPT
          !.lagHistory = IF Len(@) + 1 > LagHistoryLimit THEN Tail(Append(@, lagSamples))
                         ELSE Append(@, lagSamples),
          !.lagSum = IF Len(J.lagHistory) + 1 > LagHistoryLimit
                     THEN @ + lagSamples - Head(Append(J.lagHistory, lagSamples))
                     ELSE @ + lagSamples,
          !.lagLast = lagSamples,
          !.lagStatsReady = TRUE]

(* PortAudio.pushSamplesForPlay(speakerBlock), and the record of the block *)
PlayBlock(J, rec, ref, out, called, taken) ==
  [J EXCEPT !.played = @ \o BlockSeq(J.delayed),
            !.blocks = Append(@, [near |-> rec, far |-> ref, out |-> out,
                                  speaker |-> J.delayed, called |-> called,
                                  taken |-> taken,
                                  rec_len |-> Len(J.recQ),
                                  jitter_len |-> Len(J.refQ),
                                  out_len |-> Len(J.played) + Block,
                                  counter |-> J.blockCounter])]

(* the speaker block: from jitterQ once it is primed, zeros before *)
SpeakerBlock(J, rec, ref, out, called) ==
  IF ~J.needJitter /\ Len(J.jitterQ) >= Block
  THEN PlayBlock(applyLoopbackDelayBlock([J EXCEPT !.jitterQ = Drop(@, Block)],
                                         TakeBlock(J.jitterQ), 0),
                 rec, ref, out, called, TRUE)
  ELSE PlayBlock(applyLoopbackDelayBlock(J, ZeroBlock, 0), rec, ref, out, called, FALSE)

(* blockCounter += 1; out to refQ and jitterQ; needJitter cleared when primed *)
QueueOut(J, rec, ref, out, called) ==
  SpeakerBlock([J EXCEPT !.blockCounter = @ + 1,
                         !.refQ = @ \o BlockSeq(out),
                         !.jitterQ = @ \o BlockSeq(out),
                         !.needJitter = IF /\ @
                                           /\ Len(J.jitterQ) + Block >= J.jitterSamplesTarget
                                        THEN FALSE ELSE @],
               rec, ref, out, called)

(* JsSuppressor.processInt16(farInt16, nearInt16) and updateLagStats *)
processInt16(J, rec, ref, r) ==
  QueueOut(updateLagStats([J EXCEPT !.suppressor = r], r.lag), rec, ref,
           [i \in BlockIdx |-> EchoEncodeJs(RMul(R(rec[i], PcmHalf), r.gateGain))], TRUE)

(* let out = rec; if (!passthrough) { result = suppressor.processInt16(ref, rec) } *)
JsGateBlock(J, rec, ref) ==
  IF J.passthrough THEN QueueOut(J, rec, ref, rec, FALSE)
  ELSE processInt16(J, rec, ref,
                    processFloat("real", J.suppressor, EchoToFloat(ref), EchoToFloat(rec)))

(* ref = refQ.length >= kBlock ? popBlockI16(refQ) : new Int16Array(kBlock) *)
JsPopRef(J, rec) ==
  IF Len(J.refQ) >= Block
  THEN JsGateBlock([J EXCEPT !.refQ = Drop(@, Block)], rec, TakeBlock(J.refQ))
  ELSE JsGateBlock(J, rec, ZeroBlock)

(* one iteration of the loop of processBlocks, from rec = popBlockI16(recQ) *)
JsOneBlock(J) == JsPopRef([J EXCEPT !.recQ = Drop(@, Block)], TakeBlock(J.recQ))

(* processBlocks(): while (recQ.length >= kBlock) *)
RECURSIVE processBlocks(_)
processBlocks(J) ==
  IF Len(J.recQ) >= Block THEN processBlocks(JsOneBlock(J)) ELSE J

(* the script's variables as one record *)
ScriptOf(j) ==
  [f \in DOMAIN j \cup {"inputDelaySamples", "captureDelayLine", "captureDelayStart",
                        "recQ", "delayed"} |->
     IF f = "inputDelaySamples" THEN delay_target_samples
     ELSE IF f = "captureDelayLine" THEN captureDelayLine
     ELSE IF f = "captureDelayStart" THEN captureDelayStart
     ELSE IF f = "recQ" THEN recQ
     ELSE IF f = "delayed" THEN ZeroBlock
     ELSE j[f]]

(* the variables that jsEcho keeps *)
JsEchoOf(J) == [f \in DOMAIN jsEcho |-> J[f]]

(* the setInterval callback with recArr.length > 0 *)
Tick(J, recArr) ==
  [processBlocks(enqueueCaptureSamples(J, recArr)) EXCEPT !.ticks = @ + 1]

tick ==
  /\ jsEcho.running
  /\ \E recArr \in EchoFrames :
       /\ Len(captured) + Len(recArr) <= MaxEchoSamples
       /\ \E J \in {Tick(ScriptOf(jsEcho), recArr)} :
            /\ captureDelayLine' = J.captureDelayLine
            /\ captureDelayStart' = J.captureDelayStart
            /\ recQ' = J.recQ
            /\ jsEcho' = JsEchoOf(J)
       /\ captured' = captured \o recArr
  /\ UNCHANGED <<delay_target_samples, delay_line, rec_dev>>
  /\ UNCHANGED core
  /\ UNCHANGED <<meter, scored, port, pcm, echo, tool>>

(* --passthrough, --input-delay-ms (whole blocks), --loopback-delay-ms *)
InitEchoback ==
  /\ InitCore({CfgAmdf})
  /\ meter = NoMeter
  /\ delay_target_samples \in {0, Block}
  /\ InitQueues
  /\ scored = NoScore
  /\ port = NoPort
  /\ pcm = NoPcm
  /\ \E passthrough \in BOOLEAN :
       \/ /\ \E loopback \in {0, 1, Block + 1} : echo = EchoInit(TRUE, passthrough, loopback)
          /\ jsEcho = NoJsEcho
       \/ /\ echo = NoEcho
          /\ \E latency \in {0, 2 * Block}, loopback \in {0, Block + 1} :
               jsEcho = JsEchoInit(TRUE, passthrough, latency, loopback)
  /\ tool = NoTool

NextEcho == pa_callback \/ tick
SpecEcho == InitEchoback /\ [][NextEcho]_vars

----------------------------------------------------------------------------
(* Properties of echoback                                                  *)

(* sample j (from 1) of the blocks' field f, the blocks laid end to end *)
StreamAt(bs, f, j) == bs[((j - 1) \div Block) + 1][f][(j - 1) % Block]

(* the stream of field f of the blocks, as a sequence *)
StreamOf(bs, f) == [j \in 1 .. Block * Len(bs) |-> StreamAt(bs, f, j)]

(* stream s delayed by d samples: d zeros first, the length kept *)
Delayed(s, d) == [j \in 1 .. Len(s) |-> IF j <= d THEN 0 ELSE s[j - d]]

FarIsPreviousOut(bs) ==
  \A k \in 1 .. Len(bs) :
    /\ bs[k].far = IF k = 1 THEN ZeroBlock ELSE bs[k - 1].out
    /\ bs[k].jitter_len <= Block

C23_BlockAccounting ==
  /\ echo.running =>
       /\ Len(rec_dev) < Block
       /\ Len(rec_dev) = Len(captured) - Block * echo.block_counter
       /\ Len(echo.out_dev) = Block * echo.block_counter - echo.emitted
       /\ echo.block_counter = Len(echo.blocks)
       /\ \A k \in 1 .. Len(echo.blocks) :
            /\ echo.blocks[k].counter = k
            /\ echo.blocks[k].jitter_len = Block
            /\ echo.blocks[k].out_len >= Block
       /\ echo.frames \subseteq {Block} =>
            /\ echo.underrun = 0
            /\ echo.emitted = Len(captured)
            /\ echo.out_dev = <<>>
  /\ jsEcho.running =>
       /\ Len(recQ) < Block
       /\ Len(recQ) = Len(captured) - Block * jsEcho.blockCounter
       /\ Len(jsEcho.played) = Block * jsEcho.blockCounter
       /\ jsEcho.blockCounter = Len(jsEcho.blocks)
       /\ \A k \in 1 .. Len(jsEcho.blocks) :
            /\ jsEcho.blocks[k].counter = k
            /\ jsEcho.blocks[k].jitter_len = Block
            /\ jsEcho.blocks[k].out_len = Block * k

C23_Witness ==
  /\ echo.running
  /\ echo.frames = {Block}
  /\ echo.block_counter = 3
  /\ echo.emitted = 3 * Block
  /\ Len(captured) = 3 * Block

(* C24: in passthrough mode every output block is the captured near block  *)
(* unchanged, process_block / processInt16 is never called, and the        *)
(* suppressor keeps the state it was constructed with.                     *)
C24_Passthrough ==
  /\ (echo.running /\ echo.passthrough) =>
       /\ \A k \in 1 .. Len(echo.blocks) :
            /\ echo.blocks[k].out = echo.blocks[k].near
            /\ ~echo.blocks[k].called
       /\ StreamOf(echo.blocks, "out") =
            SubSeq(Delayed(captured, delay_target_samples), 1, Block * Len(echo.blocks))
       /\ echo.suppressor = FixedConstruct
  /\ (jsEcho.running /\ jsEcho.passthrough) =>
       /\ \A k \in 1 .. Len(jsEcho.blocks) :
            /\ jsEcho.blocks[k].out = jsEcho.blocks[k].near
            /\ ~jsEcho.blocks[k].called
       /\ StreamOf(jsEcho.blocks, "out") =
            SubSeq(Delayed(captured, delay_target_samples), 1, Block * Len(jsEcho.blocks))
       /\ jsEcho.suppressor = JsConstruct

C24_Witness ==
  /\ echo.running /\ echo.passthrough
  /\ echo.frames = {Block}
  /\ delay_target_samples = 0
  /\ Len(echo.blocks) = 3
  /\ \A k \in 1 .. 3 : ~IsZero(echo.blocks[k].out)
  /\ echo.blocks[3].out # echo.blocks[2].out

----------------------------------------------------------------------------
(* cancel_file (C++) and cancel_file.js: one run of main.  T is the run:   *)
(* the arguments, what reading each path gives, whether processed.wav can  *)
(* be opened for writing, and the outcome: the exit status, the blocks     *)
(* processed and the samples written.  A path that is not one of the two   *)
(* files names no file.                                                    *)

(* !arg.empty() && arg[0] == '-' *)
IsOption(arg) == arg \in {"--help", "--bogus"}

(* read_wav_pcm16_mono16k(path, &out) / readWavPcm16Mono16k(filePath) *)
read_wav_pcm16_mono16k(T, path) ==
  IF path \in DOMAIN T.files THEN T.files[path] ELSE Unreadable

(* return / process.exit(status) *)
Exit(T, status) == [T EXCEPT !.done = TRUE, !.status = status]

(* the argument loop of main: the first option met ends the run *)
RECURSIVE ParseArgs(_, _, _)
ParseArgs(args, i, positional) ==
  IF i > Len(args) THEN [exit |-> -1, positional |-> positional]
  ELSE IF args[i] = "--help" THEN [exit |-> 0, positional |-> positional]
  ELSE IF IsOption(args[i]) THEN [exit |-> 1, positional |-> positional]
  ELSE ParseArgs(args, i + 1, Append(positional, args[i]))

(* blocks = std::min(x.samples.size(), y.samples.size()) / kBlockSamples *)
CancelBlocks(x, y) == (IF Len(x) < Len(y) THEN Len(x) ELSE Len(y)) \div Block

(* samples [offset, offset + kBlockSamples) of a file *)
FileBlock(samples, offset) == [i \in BlockIdx |-> samples[offset + i + 1]]

RECURSIVE CancelLoop(_, _, _, _, _, _)

(* the body of the loop once process_block has run *)
CancelStep(x, y, blocks, n, r, processed) ==
  CancelLoop(x, y, blocks, n + 1, r,
             Append(processed,
                    [n |-> n, offset |-> n * Block,
                     far |-> FileBlock(x, n * Block), near |-> FileBlock(y, n * Block),
                     out |-> [i \in BlockIdx |->
                                EchoEncode(RMul(R(FileBlock(y, n * Block)[i], PcmHalf),
                                                r.gate_gain))]]))

(* for (size_t n = 0; n < blocks; ++n) *)
CancelLoop(x, y, blocks, n, suppressor, processed) ==
  IF n >= blocks THEN processed
  ELSE CancelStep(x, y, blocks, n,
                  FixedProcessBlock("real", suppressor,
                                    EchoToFloat(FileBlock(x, n * Block)),
                                    EchoToFloat(FileBlock(y, n * Block))),
                  processed)

(* the samples of the processed blocks, end to end *)
Flat(processed) ==
  [j \in 1 .. Block * Len(processed) |->
     processed[((j - 1) \div Block) + 1].out[(j - 1) % Block]]

(* std::ofstream wf("processed.wav"); if (wf) { ... } return 0; *)
WriteCpp(T, processed) ==
  [Exit(T, 0) EXCEPT !.processed = processed,
                     !.wrote = T.writable,
                     !.output = IF T.writable THEN Flat(processed) ELSE <<>>]

(* main from the block count on *)
ProcessCpp(T, x, y) ==
  IF CancelBlocks(x, y) = 0 THEN Exit(T, 1)
  ELSE WriteCpp(T, CancelLoop(x, y, CancelBlocks(x, y), 0, FixedConstruct, <<>>))

(* main from the positional arguments on *)
ReadCpp(T, positional) ==
  IF Len(positional) < 2 THEN Exit(T, 1)
  ELSE IF \/ ~read_wav_pcm16_mono16k(T, positional[1]).ok
          \/ ~read_wav_pcm16_mono16k(T, positional[2]).ok
       THEN Exit(T, 1)
       ELSE ProcessCpp(T, read_wav_pcm16_mono16k(T, positional[1]).samples,
                          read_wav_pcm16_mono16k(T, positional[2]).samples)

(* int main(int argc, char** argv) of cancel_file.cc *)
CancelFileMain(T) ==
  IF ParseArgs(T.args, 1, <<>>).exit # -1 THEN Exit(T, ParseArgs(T.args, 1, <<>>).exit)
  ELSE ReadCpp(T, ParseArgs(T.args, 1, <<>>).positional)

RECURSIVE JsCancelLoop(_, _, _, _, _, _)

(* the body of the loop once processInt16 has run *)
JsCancelStep(renderWav, captureWav, blocks, n, r, processed) ==
  JsCancelLoop(renderWav, captureWav, blocks, n + 1, r,
               Append(processed,
                      [n |-> n, offset |-> n * Block,
                       far |-> FileBlock(renderWav, n * Block),
                       near |-> FileBlock(captureWav, n * Block),
                       out |-> [i \in BlockIdx |->
                                  EchoEncodeJs(RMul(R(FileBlock(captureWav, n * Block)[i],
                                                      PcmHalf), r.gateGain))]]))

(* for (let n = 0; n < blocks; n++) *)
JsCancelLoop(renderWav, captureWav, blocks, n, suppressor, processed) ==
  IF n >= blocks THEN processed
  ELSE JsCancelStep(renderWav, captureWav, blocks, n,
                    processFloat("real", suppressor,
                                 EchoToFloat(FileBlock(renderWav, n * Block)),
                                 EchoToFloat(FileBlock(captureWav, n * Block))),
                    processed)

(* writeWavPcm16Mono16k(outputPath, processed): writeFileSync throws when *)
(* the file cannot be opened, and the uncaught exception ends node with 1 *)
WriteJs(T, processed) ==
  [Exit(T, IF T.writable THEN 0 ELSE 1) EXCEPT
     !.processed = processed,
     !.wrote = T.writable,
     !.output = IF T.writable THEN Flat(processed) ELSE <<>>]

(* main from sampleCount on *)
ProcessJs(T, renderWav, captureWav) ==
  IF CancelBlocks(renderWav, captureWav) <= 0 THEN Exit(T, 1)
  ELSE WriteJs(T, JsCancelLoop(renderWav, captureWav, CancelBlocks(renderWav, captureWav), 0,
                               JsConstruct, <<>>))

(* function main() of cancel_file.js: args[0] and args[1] are the paths *)
JsCancelFileMain(T) ==
  IF \E i \in 1 .. Len(T.args) : T.args[i] = "--help" THEN Exit(T, 0)
  ELSE IF Len(T.args) < 2 THEN Exit(T, 1)
  ELSE IF \/ ~read_wav_pcm16_mono16k(T, T.args[1]).ok
          \/ ~read_wav_pcm16_mono16k(T, T.args[2]).ok
       THEN Exit(T, 1)
       ELSE ProcessJs(T, read_wav_pcm16_mono16k(T, T.args[1]).samples,
                         read_wav_pcm16_mono16k(T, T.args[2]).samples)

RunTool ==
  /\ ~tool.done
  /\ tool' = IF tool.program = "cancel_file" THEN CancelFileMain(tool)
             ELSE JsCancelFileMain(tool)
  /\ UNCHANGED core
  /\ UNCHANGED <<meter, capture, scored, port, pcm, echo, jsEcho>>

ArgTokens == {"render.wav", "capture.wav", "--help", "--bogus"}
ToolArgs == UNION {[1 .. n -> ArgTokens] : n \in 0 .. MaxArgs}

(* a readable file of n samples *)
WavOf(n, phase) ==
  [ok |-> TRUE, samples |-> [i \in 1 .. n |-> IF (i + phase) % 3 = 0 THEN 2 ELSE -3]]

RenderFiles == {Unreadable} \cup {WavOf(n, 0) : n \in 0 .. MaxFileSamples}
CaptureFiles == {Unreadable} \cup {WavOf(n, 1) : n \in 0 .. MaxFileSamples}

(* the command line and the files the tool is started on *)
InitTool ==
  /\ InitCore({CfgAmdf})
  /\ meter = NoMeter
  /\ delay_target_samples = 0
  /\ InitQueues
  /\ scored = NoScore
  /\ port = NoPort
  /\ pcm = NoPcm
  /\ echo = NoEcho
  /\ jsEcho = NoJsEcho
  /\ \E program \in {"cancel_file", "cancel_file.js"}, args \in ToolArgs,
        renderWav \in RenderFiles, captureWav \in CaptureFiles, writable \in BOOLEAN :
       tool = ToolInit(program, args, renderWav, captureWav, writable)

NextTool == RunTool
SpecTool == InitTool /\ [][NextTool]_vars

----------------------------------------------------------------------------
(* Properties of cancel_file                                               *)

(* the arguments that are not options: the render and the capture path *)
Positionals == SelectSeq(tool.args, LAMBDA arg : ~IsOption(arg))

UnknownOptionGiven == \E i \in 1 .. Len(tool.args) : tool.args[i] = "--bogus"
OptionGiven == \E i \in 1 .. Len(tool.args) : IsOption(tool.args[i])

(* both files named and readable *)
BothRead ==
  /\ Len(Positionals) >= 2
  /\ read_wav_pcm16_mono16k(tool, Positionals[1]).ok
  /\ read_wav_pcm16_mono16k(tool, Positionals[2]).ok

(* the whole blocks the two files have in common *)
CommonBlocks ==
  CancelBlocks(read_wav_pcm16_mono16k(tool, Positionals[1]).samples,
               read_wav_pcm16_mono16k(tool, Positionals[2]).samples)

(* block n (from 0) was made of samples [Block n, Block n + Block) of both files *)
InFileOrder ==
  \A k \in 1 .. Len(tool.processed) :
    /\ tool.processed[k].n = k - 1
    /\ tool.processed[k].offset = Block * (k - 1)
    /\ tool.processed[k].far =
         [i \in BlockIdx |->
            read_wav_pcm16_mono16k(tool, Positionals[1]).samples[Block * (k - 1) + i + 1]]
    /\ tool.processed[k].near =
         [i \in BlockIdx |->
            read_wav_pcm16_mono16k(tool, Positionals[2]).samples[Block * (k - 1) + i + 1]]

(* C30: when both files are read (no option given, the output file can be *)
(* opened) the tool processes exactly floor(min(render, capture) / Block)  *)
(* blocks in file order and writes Block samples for each; when a file     *)
(* cannot be read, or the files have less than one block in common, or an  *)
(* unknown option is given, it exits with status 1, no block processed and *)
(* processed.wav not written.                                              *)
C30_CancelFileAccounting ==
  tool.done =>
    /\ (~OptionGiven /\ BothRead /\ tool.writable) =>
         /\ Len(tool.processed) = CommonBlocks
         /\ InFileOrder
         /\ Len(tool.output) = Block * CommonBlocks
         /\ CommonBlocks > 0 => (tool.status = 0 /\ tool.wrote)
    /\ (\/ UnknownOptionGiven
        \/ ~OptionGiven /\ Len(Positionals) >= 2 /\ ~BothRead
        \/ ~OptionGiven /\ BothRead /\ CommonBlocks = 0) =>
         /\ tool.status = 1
         /\ tool.processed = <<>>
         /\ ~tool.wrote

====
